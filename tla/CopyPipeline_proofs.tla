------------------------- MODULE CopyPipeline_proofs -------------------------
(***************************************************************************)
(* Theorems about CopyPipeline, for any tracks, whatever the user stops    *)
(* and whatever fails: the pipeline is the two phases it is made of, with  *)
(* their cancel, and each of them is a queue; it refines TrackCopying, the *)
(* copying the user asks for; a worker that asks has one alert; a pause    *)
(* ends with the last alert; no song is added twice.  Without a cancel,    *)
(* and but for the tracks that iTunes was not heard about: what is copied  *)
(* is added, references are to songs that are there, and no duplicate is   *)
(* left behind.                                                            *)
(***************************************************************************)
EXTENDS CopyPipeline, PhasedConsumer_proofs

-----------------------------------------------------------------------------
(* The phases under the copying, cancelled at any time.                    *)

PhasedStep == Next \/ (MayCancel /\ BeginCancel) \/ Cancel \/ UNCHANGED vars

\* Every step of the pipeline is one of the phases or leaves them alone.
LEMMA PipeStepsPhases == [PipeNext]_pipeVars => PhasedStep
<1> SUFFICES ASSUME [PipeNext]_pipeVars PROVE PhasedStep
  OBVIOUS
<1> USE DEF PhasedStep
<1>1. CASE Preprocessor
  BY <1>1 DEF Preprocessor, Decide, AddToCopier, SetUpDuplicates, AddToAdder, Next, Adder
<1>2. ASSUME NEW p \in Phases, PipeWorker(p)
      PROVE  PhasedStep
  <2>1. Worker(p) => Next
    BY DEF Next
  <2>2. CASE Inherited(p)
    BY <2>1, <2>2 DEF Inherited, Worker
  <2>3. CASE NoticePause(p)
    BY <2>3 DEF NoticePause
  <2>4. CASE GoOn(p)
    BY <2>1, <2>4 DEF GoOn, Worker
  <2>5. CASE p = 1 /\ CopierWork
    <3>1. CASE AskStyle \/ CopyFails
      BY <3>1 DEF AskStyle, CopyFails, Ask
    <3>2. CASE ~(AskStyle \/ CopyFails)
      <4>1. Iterate(1, TRUE)
        BY <2>5, <3>2 DEF CopierWork, Copy, GiveUpCopy
      <4>2. QED BY <2>1, <2>5, <4>1 DEF Worker
    <3>3. QED BY <3>1, <3>2
  <2>6. CASE p = 2 /\ ForgetDuplicates
    BY <2>1, <2>6 DEF ForgetDuplicates, Worker
  <2>7. CASE p = 2 /\ AdderWork
    <3>1. CASE AddTimesOut \/ AddRaises
      BY <3>1 DEF AddTimesOut, Ask, AddRaises
    <3>2. CASE ~(AddTimesOut \/ AddRaises)
      <4>1. Iterate(2, TRUE) \/ Iterate(2, FALSE)
        BY <2>7, <3>2 DEF AdderWork, AddNothing, AddSong, AddReference, AddUnheard, TryAgain
      <4>2. QED BY <2>1, <2>7, <4>1 DEF Worker
    <3>3. QED BY <3>1, <3>2
  <2>8. QED BY <1>2, <2>2, <2>3, <2>4, <2>5, <2>6, <2>7 DEF PipeWorker
<1>3. CASE Main
  <2>1. ASSUME NEW p \in Phases, ShowAsked(p)
        PROVE  PhasedStep
    BY <2>1 DEF ShowAsked, ShowFailure, ShowStyle, Show
  <2>2. CASE TakeDuplicates \/ RemoveDuplicates \/ CancelRest
    BY <2>2 DEF TakeDuplicates, RemoveDuplicates, CancelRest, Cancel
  <2>3. CASE AnsweredCancel
    BY <2>3 DEF AnsweredCancel
  <2>4. QED BY <1>3, <2>1, <2>2, <2>3 DEF Main
<1>4. CASE Answer \/ ShowUser
  BY <1>4 DEF Answer, AnswerContinue, AnswerStyle, AnswerCancel, ShowUser, Show
<1>5. CASE UNCHANGED pipeVars
  BY <1>5 DEF pipeVars
<1>6. QED BY <1>1, <1>2, <1>3, <1>4, <1>5 DEF PipeNext

\* What SEPhasedConsumer promises its subclasses, they keep: the copying of
\* tracks is a behaviour of the two phases with their cancel.
THEOREM PipelineIsPhased == PipeSpec => CancelSpec
<1>1. PipeInit => Init
  BY DEF PipeInit
<1>2. [PipeNext]_pipeVars => [CancelNext]_vars
  BY PipeStepsPhases DEF PhasedStep, CancelNext
<1>3. QED BY <1>1, <1>2, PTL DEF PipeSpec, CancelSpec

\* With it, the copier and the adder are each the queue of one consumer, whatever
\* fails, is tried again or is stopped.
THEOREM PipelineIsQueues == PipeSpec => PhasesAreQueues
BY PipelineIsPhased, PhasesStayQueues, PTL

-----------------------------------------------------------------------------
(* Types.                                                                  *)

LEMMA PhasedCancels == PhasedStep => [CancelNext]_vars
BY DEF PhasedStep, CancelNext

LEMMA PhasedTypes == TypeOK /\ Held /\ PhasedStep => TypeOK' /\ Held'
BY CancelledTypes DEF PhasedStep, CancelNext

-----------------------------------------------------------------------------
(* Songs.                                                                  *)

\* What iTunes holds has left the line, or is the object just finished.
SongsInv ==
  /\ library \in [Objects -> 0..1]
  /\ \A t \in Objects :
       /\ library[t] = 1 => t \in offered
       /\ library[t] = 1 /\ t \in Elements(Line) => at[2] = "finished" /\ hand[2] = t
  /\ at[2] \in BeforeEnd => library[hand[2]] = 0

\* Only one action adds a song.
LEMMA LibraryStep ==
  ASSUME [PipeNext]_pipeVars
  PROVE  AddSong \/ library' = library
<1> USE DEF trackVars, choiceVars, duplicateVars, addedVars
<1>1. CASE Preprocessor
  BY <1>1 DEF Preprocessor, Decide, AddToCopier, SetUpDuplicates, AddToAdder
<1>2. ASSUME NEW p \in Phases, PipeWorker(p)
      PROVE  AddSong \/ library' = library
  BY <1>2 DEF PipeWorker, Inherited, NoticePause, GoOn, CopierWork, AskStyle, Copy,
              CopyFails, GiveUpCopy, Ask, ForgetDuplicates, AdderWork, AddNothing,
              AddReference, AddUnheard, AddTimesOut, TryAgain, AddRaises
<1>3. CASE Main \/ Answer \/ ShowUser
  BY <1>3 DEF Main, ShowAsked, ShowFailure, ShowStyle, Show, TakeDuplicates,
              RemoveDuplicates, CancelRest, AnsweredCancel, Return, Answer, AnswerContinue,
              AnswerStyle, AnswerCancel, ShowUser
<1>4. CASE UNCHANGED pipeVars
  BY <1>4 DEF pipeVars
<1>5. QED BY <1>1, <1>2, <1>3, <1>4 DEF PipeNext

LEMMA SongsStep ==
  ASSUME TypeOK, Held, QueueInv, SongsInv, [PipeNext]_pipeVars
  PROVE  SongsInv'
<1>1. Forth
  BY PipeStepsPhases, PhasedCancels, QueueStep
<1>2. TypeOK' /\ Held'
  BY PipeStepsPhases, PhasedTypes
<1>3. Elements(Line) \subseteq Objects /\ Elements(Line)' \subseteq Objects
  <2>1. Elements(Line) \subseteq Objects
    BY LineTypes, ElementsOfSeq
  <2>2. Line' \in Seq(Objects)
    BY <1>2 DEF TypeOK, Line, Pending, Phases
  <2>3. Elements(Line') \subseteq Objects
    BY <2>2, ElementsOfSeq
  <2>4. Elements(Line)' = Elements(Line')
    BY DEF Elements
  <2>5. QED BY <2>1, <2>3, <2>4
<1>4. CASE library' = library
  <2>1. \A t \in Objects : library'[t] = 1 => t \in offered'
    BY <1>1, <1>4 DEF SongsInv, Forth
  <2>2. ASSUME NEW t \in Objects, library'[t] = 1, t \in Elements(Line)'
        PROVE  at'[2] = "finished" /\ hand'[2] = t
    <3>1. t \in offered
      BY <1>4, <2>2 DEF SongsInv
    <3>2. t \in Elements(Line)
      BY <1>1, <2>2, <3>1 DEF Forth
    <3>3. at[2] = "finished" /\ hand[2] = t
      BY <1>4, <2>2, <3>2 DEF SongsInv
    <3>4. QED BY <1>1, <2>2, <3>3 DEF Forth
  <2>3. ASSUME at'[2] \in BeforeEnd
        PROVE  library'[hand'[2]] = 0
    <3>1. CASE at[2] \in BeforeEnd /\ hand'[2] = hand[2]
      BY <1>4, <3>1 DEF SongsInv
    <3>2. CASE at[2] = "top" /\ hand'[2] \in Elements(Line)
      <4>1. hand'[2] \in Objects
        BY <1>3, <3>2
      <4>2. library[hand'[2]] \in 0..1 /\ library[hand'[2]] # 1
        BY <3>2, <4>1 DEF SongsInv
      <4>3. QED BY <1>4, <4>2
    <3>3. QED BY <1>1, <2>3, <3>1, <3>2 DEF Forth
  <2>4. QED BY <1>4, <2>1, <2>2, <2>3 DEF SongsInv
<1>5. CASE AddSong
  <2>1. /\ at[2] = "work" /\ at'[2] = "finished" /\ hand' = hand /\ offered' = offered
        /\ UNCHANGED queueVars /\ batch' = batch
    BY <1>5 DEF AddSong, Iterate, Move, adderVars, TypeOK, Phases
  <2>2. Line' = Line
    BY <2>1 DEF Line, Pending, queueVars
  <2>3. hand[2] \in Objects /\ library[hand[2]] = 0 /\ hand[2] \in offered
    BY <2>1 DEF Held, SongsInv, QueueInv, AtWork, BeforeEnd, Phases
  <2>4. library' \in [Objects -> 0..1]
    BY <1>5, <2>3 DEF AddSong, SongsInv
  <2>5. \A t \in Objects \ {hand[2]} : library'[t] = library[t]
    BY <1>5 DEF AddSong, SongsInv
  <2>6. QED BY <2>1, <2>2, <2>3, <2>4, <2>5 DEF SongsInv, BeforeEnd
<1>6. QED BY <1>4, <1>5, LibraryStep

PipelineInv == TypeOK /\ Held /\ QueueInv /\ SongsInv

LEMMA PipelineInit == PipeInit => PipelineInv
<1> SUFFICES ASSUME PipeInit PROVE PipelineInv
  OBVIOUS
<1> USE DEF PipeInit, Init
<1>1. TypeOK
  <2>1. <<>> \in Seq(Objects)
    OBVIOUS
  <2>2. QED BY <2>1, CancelTodo DEF TypeOK, WorkerAt, Phases
<1>2. Held
  BY DEF Held, AtWork
<1>3. Line = <<>>
  BY DEF Line, Pending, Phases
<1>4. Elements(Line) = {} /\ Distinct(Line)
  BY <1>3 DEF Elements, Distinct
<1>5. at[2] = "top"
  BY DEF Phases
<1>6. QueueInv
  BY <1>4, <1>5 DEF QueueInv, AtWork
<1>7. SongsInv
  BY <1>4, <1>5 DEF SongsInv, AtWork, BeforeEnd
<1>8. QED BY <1>1, <1>2, <1>6, <1>7 DEF PipelineInv

\* The inductive invariant of the pipeline.
LEMMA PipelineHolds == PipeSpec => []PipelineInv
<1>1. PipelineInv /\ [PipeNext]_pipeVars => PipelineInv'
  BY PipeStepsPhases, PhasedCancels, PhasedTypes, QueueStep, SongsStep DEF PipelineInv
<1>2. QED BY <1>1, PipelineInit, PTL DEF PipeSpec

\* No song that iTunes has answered for is added again, whatever is cancelled,
\* skipped or tried again (SEThreadedTrackAdder.m:122-144).
THEOREM SongAddedOnce == PipeSpec => []AddedOnce
<1>1. PipelineInv => AddedOnce
  <2>1. ASSUME SongsInv, NEW t \in Objects
        PROVE  library[t] <= 1
    BY <2>1 DEF SongsInv
  <2>2. QED BY <2>1 DEF PipelineInv, AddedOnce
<1>2. QED BY <1>1, PipelineHolds, PTL

-----------------------------------------------------------------------------
(* Alerts.                                                                 *)

\* A new alert pushes the others down.
LEMMA AlertsPushed ==
  ASSUME alerts \in Seq(Senders), NEW sender \in Senders, alerts' = <<sender>> \o alerts
  PROVE  /\ alerts' \in Seq(Senders) /\ alerts' # <<>> /\ 1 \in DOMAIN alerts'
         /\ alerts'[1] = sender
         /\ \A i \in DOMAIN alerts : i + 1 \in DOMAIN alerts' /\ alerts'[i + 1] = alerts[i]
         /\ Len(alerts)' = Len(alerts) + 1
         /\ \A q : AlertsOf(q)' = {i + 1 : i \in AlertsOf(q)}
                                  \cup (IF q = sender THEN {1} ELSE {})
<1> DEFINE new == <<sender>>
<1>1. new \in Seq(Senders) /\ Len(new) = 1 /\ new[1] = sender
  OBVIOUS
<1>2. alerts' = new \o alerts
  OBVIOUS
<1> HIDE DEF new
<1>3. /\ new \o alerts \in Seq(Senders)
      /\ Len(new \o alerts) = Len(new) + Len(alerts)
      /\ \A i \in 1..(Len(new) + Len(alerts)) :
           (new \o alerts)[i] = IF i <= Len(new) THEN new[i] ELSE alerts[i - Len(new)]
  BY <1>1, ConcatProperties
<1>4. Len(alerts) \in Nat /\ DOMAIN alerts = 1..Len(alerts)
  BY LenProperties
<1>5. /\ Len(alerts') = Len(alerts) + 1 /\ alerts' \in Seq(Senders)
      /\ DOMAIN alerts' = 1..(Len(alerts) + 1)
      /\ alerts'[1] = sender
      /\ \A i \in 1..Len(alerts) : alerts'[i + 1] = alerts[i]
  <2>1. Len(alerts') = Len(alerts) + 1 /\ alerts' \in Seq(Senders)
    BY <1>1, <1>2, <1>3, <1>4
  <2>2. DOMAIN alerts' = 1..(Len(alerts) + 1)
    BY <2>1, LenProperties
  <2>3. alerts'[1] = sender
    BY <1>1, <1>2, <1>3, <1>4
  <2>4. ASSUME NEW i \in 1..Len(alerts)
        PROVE  alerts'[i + 1] = alerts[i]
    <3>1. /\ i + 1 \in 1..(Len(new) + Len(alerts)) /\ ~(i + 1 <= Len(new))
          /\ (i + 1) - Len(new) = i
      BY <1>1, <1>4
    <3>2. QED BY <1>2, <1>3, <3>1
  <2>5. QED BY <2>1, <2>2, <2>3, <2>4
<1>6. ASSUME NEW q
      PROVE  AlertsOf(q)' = {i + 1 : i \in AlertsOf(q)} \cup (IF q = sender THEN {1} ELSE {})
  <2>1. ASSUME NEW i \in AlertsOf(q)'
        PROVE  i \in {j + 1 : j \in AlertsOf(q)} \cup (IF q = sender THEN {1} ELSE {})
    <3>1. i \in 1..(Len(alerts) + 1) /\ alerts'[i] = q
      BY <1>5, <2>1 DEF AlertsOf
    <3>2. CASE i = 1
      BY <1>5, <3>1, <3>2
    <3>3. CASE i # 1
      <4>1. i - 1 \in 1..Len(alerts) /\ (i - 1) + 1 = i
        BY <1>4, <3>1, <3>3
      <4>2. i - 1 \in AlertsOf(q)
        BY <1>4, <1>5, <3>1, <4>1 DEF AlertsOf
      <4>3. QED BY <4>1, <4>2
    <3>4. QED BY <3>2, <3>3
  <2>2. ASSUME NEW i \in AlertsOf(q)
        PROVE  i + 1 \in AlertsOf(q)'
    <3>1. i \in 1..Len(alerts) /\ i + 1 \in 1..(Len(alerts) + 1)
      BY <1>4, <2>2 DEF AlertsOf
    <3>2. QED BY <1>5, <2>2, <3>1 DEF AlertsOf
  <2>3. q = sender => 1 \in AlertsOf(q)'
    BY <1>4, <1>5 DEF AlertsOf
  <2>4. QED BY <2>1, <2>2, <2>3
<1>7. \A i \in DOMAIN alerts : i + 1 \in DOMAIN alerts' /\ alerts'[i + 1] = alerts[i]
  BY <1>4, <1>5
<1>8. alerts' # <<>> /\ 1 \in DOMAIN alerts'
  BY <1>4, <1>5
<1>9. QED BY <1>5, <1>6, <1>7, <1>8

\* The answer to the topmost alert lets the others come up.
LEMMA AlertsPopped ==
  ASSUME alerts \in Seq(Senders), alerts # <<>>, alerts' = Tail(alerts)
  PROVE  /\ alerts' \in Seq(Senders)
         /\ \A i \in DOMAIN alerts :
              \/ alerts[i] = Head(alerts)
              \/ i - 1 \in DOMAIN alerts' /\ alerts'[i - 1] = alerts[i]
         /\ Len(alerts)' = Len(alerts) - 1 /\ Len(alerts) \in Nat
         /\ \A q : /\ AlertsOf(q)' = {i - 1 : i \in AlertsOf(q) \ {1}}
                   /\ 1 \in AlertsOf(q) <=> q = Head(alerts)
                   /\ AlertsOf(q) \subseteq Nat
<1>1. /\ Len(alerts) \in Nat \ {0} /\ DOMAIN alerts = 1..Len(alerts)
      /\ Head(alerts) = alerts[1]
      /\ alerts' \in Seq(Senders)
      /\ Len(alerts') = Len(alerts) - 1 /\ DOMAIN alerts' = 1..(Len(alerts) - 1)
      /\ \A i \in 1..(Len(alerts) - 1) : alerts'[i] = alerts[i + 1]
  <2>1. Len(alerts) \in Nat \ {0} /\ Head(alerts) = alerts[1] /\ DOMAIN alerts = 1..Len(alerts)
    BY EmptySeq, LenProperties
  <2>2. /\ alerts' \in Seq(Senders) /\ Len(alerts') = Len(alerts) - 1
        /\ \A i \in 1..(Len(alerts) - 1) : alerts'[i] = alerts[i + 1]
    BY HeadTailProperties
  <2>3. DOMAIN alerts' = 1..(Len(alerts) - 1)
    BY <2>2, LenProperties
  <2>4. QED BY <2>1, <2>2, <2>3
<1>2. ASSUME NEW q
      PROVE  /\ AlertsOf(q)' = {i - 1 : i \in AlertsOf(q) \ {1}}
             /\ 1 \in AlertsOf(q) <=> q = Head(alerts)
             /\ AlertsOf(q) \subseteq Nat
  <2>1. ASSUME NEW i \in AlertsOf(q)'
        PROVE  i \in {j - 1 : j \in AlertsOf(q) \ {1}}
    <3>1. /\ i \in 1..(Len(alerts) - 1) /\ i + 1 \in 1..Len(alerts)
          /\ i + 1 # 1 /\ (i + 1) - 1 = i
      BY <1>1, <2>1 DEF AlertsOf
    <3>2. i + 1 \in AlertsOf(q) \ {1}
      BY <1>1, <2>1, <3>1 DEF AlertsOf
    <3>3. QED BY <3>1, <3>2
  <2>2. ASSUME NEW i \in AlertsOf(q) \ {1}
        PROVE  i - 1 \in AlertsOf(q)'
    <3>1. i - 1 \in 1..(Len(alerts) - 1) /\ (i - 1) + 1 = i
      BY <1>1, <2>2 DEF AlertsOf
    <3>2. QED BY <1>1, <2>2, <3>1 DEF AlertsOf
  <2>3. 1 \in AlertsOf(q) <=> q = Head(alerts)
    BY <1>1 DEF AlertsOf
  <2>4. AlertsOf(q) \subseteq Nat
    BY <1>1 DEF AlertsOf
  <2>5. QED BY <2>1, <2>2, <2>3, <2>4
<1>3. ASSUME NEW i \in DOMAIN alerts, i # 1
      PROVE  i - 1 \in DOMAIN alerts' /\ alerts'[i - 1] = alerts[i]
  <2>1. i - 1 \in 1..(Len(alerts) - 1) /\ (i - 1) + 1 = i
    BY <1>1, <1>3
  <2>2. QED BY <1>1, <2>1
<1>4. QED BY <1>1, <1>2, <1>3

-----------------------------------------------------------------------------
(* Pauses.                                                                 *)

\* The alert whose answer is to stop stays until all is cancelled.
PauseInv ==
  /\ alerts \in Seq(Senders)
  /\ stopping => alerts # <<>> /\ Head(alerts) # Style
  /\ PausesEnd

\* The main thread alone pauses and continues.
LEMMA AlertSteps ==
  ASSUME [PipeNext]_pipeVars
  PROVE  \/ UNCHANGED <<alerts, state, stopping>>
         \/ stopping' = stopping /\ \E sender \in Senders \ {Style} : Show(sender)
         \/ ShowStyle
         \/ Return /\ stopping' = FALSE /\ (stopping \/ alerts # <<>>)
         \/ AnswerStyle
         \/ UNCHANGED <<alerts, state>> /\ alerts # <<>> /\ Head(alerts) # Style
<1> DEFINE Goal == \/ UNCHANGED <<alerts, state, stopping>>
                   \/ stopping' = stopping /\ \E sender \in Senders \ {Style} : Show(sender)
                   \/ ShowStyle
                   \/ Return /\ stopping' = FALSE /\ (stopping \/ alerts # <<>>)
                   \/ AnswerStyle
                   \/ UNCHANGED <<alerts, state>> /\ alerts # <<>> /\ Head(alerts) # Style
<1> USE DEF looperVars, mainVars
<1>1. CASE Preprocessor
  BY <1>1 DEF Preprocessor, Decide, AddToCopier, SetUpDuplicates, AddToAdder
<1>2. ASSUME NEW p \in Phases, PipeWorker(p)
      PROVE  Goal
  BY <1>2 DEF PipeWorker, Inherited, NoticePause, GoOn, CopierWork, AskStyle, Copy,
              CopyFails, GiveUpCopy, Ask, ForgetDuplicates, AdderWork, AddNothing, AddSong,
              AddReference, AddUnheard, AddTimesOut, TryAgain, AddRaises
<1>3. ASSUME NEW p \in Phases, ShowAsked(p)
      PROVE  Goal
  <2>1. CASE ShowFailure(p)
    <3>1. Show(p) /\ p \in Senders \ {Style} /\ stopping' = stopping
      BY <2>1 DEF ShowFailure, Show, Senders, Phases, Style
    <3>2. QED BY <3>1
  <2>2. QED BY <1>3, <2>1 DEF ShowAsked
<1>4. CASE ShowUser
  <2>1. Show(User) /\ User \in Senders \ {Style} /\ stopping' = stopping
    BY <1>4 DEF ShowUser, Show, Senders, User, Style
  <2>2. QED BY <2>1
<1>5. CASE TakeDuplicates \/ RemoveDuplicates \/ CancelRest
  BY <1>5 DEF TakeDuplicates, RemoveDuplicates, CancelRest
<1>6. CASE AnsweredCancel
  BY <1>6 DEF AnsweredCancel
<1>7. CASE AnswerContinue
  BY <1>7 DEF AnswerContinue, MainFree
<1>8. CASE AnswerCancel
  BY <1>8 DEF AnswerCancel
<1>9. CASE UNCHANGED pipeVars
  BY <1>9 DEF pipeVars
<1>10. QED
  BY <1>1, <1>2, <1>3, <1>4, <1>5, <1>6, <1>7, <1>8, <1>9 DEF PipeNext, Main, Answer

\* A pause begins with an alert on the screen, and each such alert that goes
\* continues both phases.
LEMMA PauseStep == PauseInv /\ [PipeNext]_pipeVars => PauseInv'
<1> SUFFICES ASSUME PauseInv, [PipeNext]_pipeVars PROVE PauseInv'
  OBVIOUS
<1> USE DEF PauseInv, PausesEnd
<1>1. CASE UNCHANGED <<alerts, state, stopping>>
  BY <1>1
<1>2. ASSUME NEW sender \in Senders, ~stopping', alerts' = <<sender>> \o alerts,
             \/ sender # Style
             \/ state' = state
      PROVE  PauseInv'
  <2>1. /\ alerts' \in Seq(Senders) /\ alerts' # <<>> /\ 1 \in DOMAIN alerts'
        /\ alerts'[1] = sender
        /\ \A i \in DOMAIN alerts : i + 1 \in DOMAIN alerts' /\ alerts'[i + 1] = alerts[i]
    BY <1>2, AlertsPushed
  <2>2. CASE sender # Style
    BY <1>2, <2>1, <2>2
  <2>3. CASE state' = state
    <3>1. (\A i \in DOMAIN alerts' : alerts'[i] = Style)
            => \A i \in DOMAIN alerts : alerts[i] = Style
      BY <2>1
    <3>2. QED BY <1>2, <2>1, <2>3, <3>1
  <2>4. QED BY <1>2, <2>2, <2>3
<1>3. CASE Return /\ stopping' = FALSE /\ (stopping \/ alerts # <<>>)
  <2>1. alerts' \in Seq(Senders)
    BY <1>3, HeadTailProperties DEF Return
  <2>2. \A p \in Phases : state'[p] = "Running"
    BY <1>3 DEF Return, ContinueBoth
  <2>3. QED BY <1>3, <2>1, <2>2
<1>4. CASE AnswerStyle
  <2>1. /\ alerts # <<>> /\ Head(alerts) = Style /\ alerts' = Tail(alerts)
        /\ state' = state /\ ~stopping'
    BY <1>4 DEF AnswerStyle, MainFree, looperVars
  <2>2. /\ alerts' \in Seq(Senders)
        /\ \A i \in DOMAIN alerts :
             \/ alerts[i] = Style
             \/ i - 1 \in DOMAIN alerts' /\ alerts'[i - 1] = alerts[i]
    BY <2>1, AlertsPopped
  <2>3. (\A i \in DOMAIN alerts' : alerts'[i] = Style)
          => \A i \in DOMAIN alerts : alerts[i] = Style
    BY <2>2
  <2>4. QED BY <2>1, <2>2, <2>3
<1>5. CASE UNCHANGED <<alerts, state>> /\ alerts # <<>> /\ Head(alerts) # Style
  BY <1>5
<1>6. ASSUME NEW sender \in Senders \ {Style}, Show(sender), stopping' = stopping
      PROVE  PauseInv'
  BY <1>2, <1>6 DEF Show, MainFree
<1>7. CASE ShowStyle
  <2>1. Style \in Senders
    BY DEF Senders
  <2>2. QED BY <1>2, <1>7, <2>1 DEF ShowStyle, MainFree, looperVars
<1>8. QED BY <1>1, <1>3, <1>4, <1>5, <1>6, <1>7, AlertSteps

\* "always continue since it got paused to start" (SECopyController.m:151):
\* with no alert of cancelCopying: on the screen neither phase is paused.
THEOREM PauseEnds == PipeSpec => []PausesEnd
<1>1. PipeInit => PauseInv
  <2>1. <<>> \in Seq(Senders)
    OBVIOUS
  <2>2. QED BY <2>1 DEF PipeInit, PauseInv, PausesEnd
<1>2. PauseInv => PausesEnd
  BY DEF PauseInv
<1>3. QED BY <1>1, <1>2, PauseStep, PTL DEF PipeSpec

-----------------------------------------------------------------------------
(* The types of what the pipeline adds to the phases.                      *)

LooperTypes ==
  /\ state \in [Phases -> {"Running", "Pause"}]
  /\ continueSemaphore \in [Phases -> 0..1]
  /\ waiting \in [Phases -> BOOLEAN]

AskingTypes ==
  /\ asking \in [Phases -> {"no", "posted", "shown", "answered",
                           "choose", "choosing", "chosen"}]
  /\ stopping \in BOOLEAN
  /\ dead \in BOOLEAN

TrackTypes ==
  /\ chosen \in Seq(Objects)
  /\ rooted \subseteq Objects
  /\ reference \in [Objects -> Objects \cup {Nil}]
  /\ path \subseteq Objects
  /\ duplicates \subseteq Objects
  /\ registered \subseteq Objects
  /\ removing \in (SUBSET Objects) \cup {Nil}
  /\ referenced \subseteq Objects
  /\ unheard \subseteq Objects

\* Pauses and continues by the main thread, and the workers that notice them.
LEMMA LooperTypesStep == LooperTypes /\ [PipeNext]_pipeVars => LooperTypes'
<1> SUFFICES ASSUME LooperTypes, [PipeNext]_pipeVars PROVE LooperTypes'
  OBVIOUS
<1> USE DEF LooperTypes
<1>1. CASE UNCHANGED looperVars
  BY <1>1 DEF looperVars
<1>2. ASSUME NEW p \in Phases, NoticePause(p) \/ GoOn(p)
      PROVE  LooperTypes'
  <2>1. CASE NoticePause(p)
    BY <2>1 DEF NoticePause
  <2>2. ASSUME GoOn(p)
        PROVE  LooperTypes'
    <3>1. waiting' = waiting \/ waiting' = [waiting EXCEPT ![p] = FALSE]
      BY <2>2, Zenon DEF GoOn
    <3>2. \/ continueSemaphore' = continueSemaphore
          \/ continueSemaphore' = [continueSemaphore EXCEPT ![p] = 0]
      BY <2>2, Zenon DEF GoOn
    <3>3. state' = state
      BY <2>2, Zenon DEF GoOn
    <3>4. waiting' \in [Phases -> BOOLEAN]
      BY <3>1
    <3>5. continueSemaphore' \in [Phases -> 0..1]
      BY <3>2
    <3>6. QED BY <3>3, <3>4, <3>5
  <2>3. QED BY <1>2, <2>1, <2>2
<1>3. ASSUME NEW sender, Show(sender)
      PROVE  LooperTypes'
  BY <1>3 DEF Show
<1>4. CASE Return
  BY <1>4 DEF Return, ContinueBoth
<1>5. CASE Preprocessor
  BY <1>1, <1>5 DEF Preprocessor, Decide, AddToCopier, SetUpDuplicates, AddToAdder
<1>6. ASSUME NEW p \in Phases, PipeWorker(p)
      PROVE  LooperTypes'
  BY <1>1, <1>2, <1>6 DEF PipeWorker, Inherited, CopierWork, AskStyle, Copy, CopyFails,
                          GiveUpCopy, Ask, ForgetDuplicates, AdderWork, AddNothing, AddSong,
                          AddReference, AddUnheard, AddTimesOut, TryAgain, AddRaises
<1>7. CASE Main \/ Answer \/ ShowUser
  BY <1>1, <1>3, <1>4, <1>7 DEF Main, ShowAsked, ShowFailure, ShowStyle, TakeDuplicates,
       RemoveDuplicates, CancelRest, AnsweredCancel, Answer, AnswerContinue, AnswerStyle,
       AnswerCancel, ShowUser
<1>8. QED BY <1>1, <1>5, <1>6, <1>7 DEF PipeNext, pipeVars

\* What a worker asks the main thread, and what becomes of it.
LEMMA AskingTypesStep == AskingTypes /\ [PipeNext]_pipeVars => AskingTypes'
<1> SUFFICES ASSUME AskingTypes, [PipeNext]_pipeVars PROVE AskingTypes'
  OBVIOUS
<1> USE DEF AskingTypes
<1>1. CASE UNCHANGED <<asking, stopping, dead>>
  BY <1>1
<1>2. ASSUME NEW p \in Phases, Ask(p)
      PROVE  AskingTypes'
  BY <1>2 DEF Ask
<1>3. ASSUME NEW p \in Phases, ShowAsked(p)
      PROVE  AskingTypes'
  BY <1>3 DEF ShowAsked, ShowFailure, ShowStyle, Show
<1>4. CASE AnsweredCancel \/ AnswerContinue \/ AnswerStyle
  BY <1>4 DEF AnsweredCancel, AnswerContinue, AnswerStyle, Return
<1>5. CASE Preprocessor
  BY <1>1, <1>5 DEF Preprocessor, Decide, AddToCopier, SetUpDuplicates, AddToAdder, mainVars
<1>6. ASSUME NEW p \in Phases, PipeWorker(p)
      PROVE  AskingTypes'
  <2>1. CASE \/ AskStyle \/ (\E skip \in BOOLEAN : Copy(skip)) \/ GiveUpCopy
             \/ TryAgain \/ AddRaises
    BY <2>1 DEF AskStyle, Copy, GiveUpCopy, TryAgain, AddRaises, mainVars
  <2>2. CASE AddNothing \/ AddSong \/ AddReference \/ AddUnheard \/ ForgetDuplicates
    BY <1>1, <2>2 DEF AddNothing, AddSong, AddReference, AddUnheard, ForgetDuplicates,
                      mainVars
  <2>3. CASE Inherited(p) \/ NoticePause(p) \/ GoOn(p)
    BY <1>1, <2>3 DEF Inherited, NoticePause, GoOn, mainVars
  <2>4. CASE CopyFails \/ AddTimesOut
    BY <1>2, <2>4 DEF CopyFails, AddTimesOut, Phases
  <2>5. QED BY <1>6, <2>1, <2>2, <2>3, <2>4 DEF PipeWorker, CopierWork, AdderWork
<1>7. CASE Main \/ Answer \/ ShowUser
  <2>1. CASE ShowUser
    BY <1>1, <2>1 DEF ShowUser, Show
  <2>2. CASE TakeDuplicates \/ RemoveDuplicates \/ CancelRest
    BY <1>1, <2>2 DEF TakeDuplicates, RemoveDuplicates, CancelRest, mainVars
  <2>3. CASE AnswerCancel
    BY <2>3 DEF AnswerCancel
  <2>4. QED BY <1>3, <1>4, <1>7, <2>1, <2>2, <2>3 DEF Main, Answer
<1>8. QED BY <1>1, <1>5, <1>6, <1>7 DEF PipeNext, pipeVars, mainVars

\* What happens to the tracks happens to those that are handed over.
LEMMA TrackTypesStep ==
  ASSUME TypeOK, Held, TrackTypes, [PipeNext]_pipeVars
  PROVE  TrackTypes'
<1> USE DEF TrackTypes, choiceVars, duplicateVars, addedVars
<1>1. CASE UNCHANGED trackVars
  BY <1>1 DEF trackVars
<1>2. ASSUME NEW array \in Arrays, Decide(array) \/ AddToCopier(array)
      PROVE  TrackTypes'
  <2>1. array \in Seq(Objects) /\ Elements(array) \subseteq Objects
    BY ArraysAreSeqs, ElementsOfSeq
  <2>2. CASE Decide(array)
    <3>1. PICK found \in Findings(array) :
            /\ rooted' = (rooted \ Elements(array)) \cup {t \in Elements(array) : found[t] = Nil}
            /\ reference' = [t \in Objects |->
                               IF ReferenceHandling = "reference" /\ t \in Elements(array)
                               THEN found[t] ELSE reference[t]]
      BY <2>2 DEF Decide
    <3>2. found \in [Elements(array) -> Objects \cup {Nil}]
      BY <3>1 DEF Findings
    <3>3. reference' \in [Objects -> Objects \cup {Nil}]
      BY <3>1, <3>2
    <3>4. rooted' \subseteq Objects
      BY <2>1, <3>1
    <3>5. QED BY <2>1, <2>2, <3>3, <3>4 DEF Decide
  <2>3. CASE AddToCopier(array)
    BY <2>3 DEF AddToCopier
  <2>4. QED BY <1>2, <2>2, <2>3
<1>3. CASE SetUpDuplicates
  <2>1. Elements(batch) \subseteq Objects
    BY ElementsOfSeq, LineTypes
  <2>2. QED BY <1>3, <2>1 DEF SetUpDuplicates
<1>4. CASE AddToAdder
  BY <1>1, <1>4 DEF AddToAdder
<1>5. ASSUME NEW p \in Phases, PipeWorker(p)
      PROVE  TrackTypes'
  <2>1. CASE Inherited(p) \/ NoticePause(p) \/ GoOn(p)
    BY <1>1, <2>1 DEF Inherited, NoticePause, GoOn
  <2>2. ASSUME NEW skip \in BOOLEAN, Copy(skip)
        PROVE  TrackTypes'
    BY <2>2 DEF Copy
  <2>3. CASE GiveUpCopy
    BY <2>3 DEF GiveUpCopy
  <2>4. CASE ForgetDuplicates
    BY <2>4 DEF ForgetDuplicates
  <2>5. CASE AddNothing \/ AddSong
    BY <2>5 DEF AddNothing, AddSong
  <2>6. CASE AddReference \/ AddUnheard
    <3>1. hand[2] \in Objects
      BY <2>6 DEF AddReference, AddUnheard, Iterate, Held, AtWork, Phases
    <3>2. QED BY <2>6, <3>1 DEF AddReference, AddUnheard
  <2>7. CASE AskStyle \/ CopyFails \/ AddTimesOut \/ TryAgain \/ AddRaises
    BY <1>1, <2>7 DEF AskStyle, CopyFails, AddTimesOut, Ask, TryAgain, AddRaises
  <2>8. QED BY <1>5, <2>1, <2>2, <2>3, <2>4, <2>5, <2>6, <2>7
        DEF PipeWorker, CopierWork, AdderWork
<1>6. CASE TakeDuplicates \/ RemoveDuplicates
  BY <1>6 DEF TakeDuplicates, RemoveDuplicates
<1>7. CASE (Main /\ ~TakeDuplicates /\ ~RemoveDuplicates) \/ Answer \/ ShowUser
  BY <1>1, <1>7 DEF Main, ShowAsked, ShowFailure, ShowStyle, Show, CancelRest,
                    AnsweredCancel, Return, Answer, AnswerContinue, AnswerStyle,
                    AnswerCancel, ShowUser
<1>8. QED BY <1>1, <1>2, <1>3, <1>4, <1>5, <1>6, <1>7 DEF PipeNext, Preprocessor, pipeVars

PipeTypes == PipelineInv /\ PauseInv /\ LooperTypes /\ AskingTypes /\ TrackTypes

LEMMA PipeTypesInit == PipeInit => PipeTypes
<1>1. PipeInit => PauseInv
  <2>1. <<>> \in Seq(Senders)
    OBVIOUS
  <2>2. QED BY <2>1 DEF PipeInit, PauseInv, PausesEnd
<1>2. PipeInit => LooperTypes
  BY DEF PipeInit, LooperTypes
<1>3. PipeInit => AskingTypes
  BY DEF PipeInit, AskingTypes
<1>4. PipeInit => TrackTypes
  <2>1. <<>> \in Seq(Objects)
    OBVIOUS
  <2>2. QED BY <2>1 DEF PipeInit, TrackTypes
<1>5. QED BY <1>1, <1>2, <1>3, <1>4, PipelineInit DEF PipeTypes

LEMMA PipeTypesStep == PipeTypes /\ [PipeNext]_pipeVars => PipeTypes'
<1>1. PipelineInv /\ [PipeNext]_pipeVars => PipelineInv'
  BY PipeStepsPhases, PhasedCancels, PhasedTypes, QueueStep, SongsStep DEF PipelineInv
<1>2. QED
  BY <1>1, PauseStep, LooperTypesStep, AskingTypesStep, TrackTypesStep
     DEF PipelineInv, PipeTypes

\* The types, whatever is cancelled: an answer always has its alert, and what
\* happens to a track happens to one that was handed over.
THEOREM PipelineTypes == PipeSpec => []PipeTypeOK
<1>1. PipeTypes => PipeTypeOK
  <2>1. SongsInv => library \in [Objects -> Nat]
    BY DEF SongsInv
  <2>2. QED
    BY <2>1 DEF PipeTypes, PipelineInv, PauseInv, LooperTypes, AskingTypes, TrackTypes,
                PipeTypeOK
<1>2. QED BY <1>1, PipeTypesInit, PipeTypesStep, PTL DEF PipeSpec

-----------------------------------------------------------------------------
(* Who asks and who is answered.                                           *)

\* A worker that has asked waits; one that goes on has been answered.
Waits(p) == asking[p] # "no" /\ at[p] = "work" => at'[p] = "work"

\* The alert of a sender is on the screen, as far as the worker knows.
IsShown(q) == IF q = Style THEN asking[1] = "choosing" ELSE asking[q] = "shown"

Askers == Phases \cup {Style}

ShownStands ==
  \A q \in Askers :
    IF IsShown(q) THEN \E i \in DOMAIN alerts : AlertsOf(q) = {i} ELSE AlertsOf(q) = {}

\* A worker that has asked is at the object it asked about.
AskedWorks == \A p \in Phases : asking[p] # "no" => at[p] = "work"

UserBelow == AlertsOf(User) \subseteq {Len(alerts)}

LEMMA AskedParts ==
  /\ AskedStands <=> AskedWorks /\ ShownStands /\ UserBelow
  /\ AskedStands' <=> AskedWorks' /\ ShownStands' /\ UserBelow'
<1>1. Style \notin Phases
  BY DEF Style, Phases
<1>2. AskedStands <=> AskedWorks /\ ShownStands /\ UserBelow
  BY <1>1 DEF AskedStands, ShownOnce, AskedWorks, ShownStands, UserBelow, Askers, IsShown
<1>3. AskedStands' <=> AskedWorks' /\ ShownStands' /\ UserBelow'
  BY <1>1 DEF AskedStands, ShownOnce, AskedWorks, ShownStands, UserBelow, Askers, IsShown
<1>4. QED BY <1>2, <1>3

\* What a step may do to the questions, the alerts and a worker that has asked.
LEMMA AskSteps ==
  ASSUME TypeOK, AskingTypes, PauseInv, [PipeNext]_pipeVars
  PROVE  \/ UNCHANGED <<alerts, asking>> /\ \A p \in Phases : Waits(p)
         \/ \E p \in Phases : Ask(p)
         \/ AskStyle
         \/ \E p \in Phases : /\ asking[p] \in {"no", "chosen", "answered"} /\ alerts' = alerts
                              /\ asking' = [asking EXCEPT ![p] = "no"]
                              /\ \A q \in Phases \ {p} : at'[q] = at[q]
         \/ \E p \in Phases : ShowAsked(p)
         \/ ShowUser
         \/ Return /\ alerts # <<>> /\ Head(alerts) # Style /\ at' = at
         \/ AnswerStyle
<1> DEFINE Goal ==
         \/ UNCHANGED <<alerts, asking>> /\ \A p \in Phases : Waits(p)
         \/ \E p \in Phases : Ask(p)
         \/ AskStyle
         \/ \E p \in Phases : /\ asking[p] \in {"no", "chosen", "answered"} /\ alerts' = alerts
                              /\ asking' = [asking EXCEPT ![p] = "no"]
                              /\ \A q \in Phases \ {p} : at'[q] = at[q]
         \/ \E p \in Phases : ShowAsked(p)
         \/ ShowUser
         \/ Return /\ alerts # <<>> /\ Head(alerts) # Style /\ at' = at
         \/ AnswerStyle
<1> USE DEF mainVars
<1>1. \A q \in Phases : at' = at => Waits(q)
  BY DEF Waits
<1>2. 1 \in Phases /\ 2 \in Phases
  BY DEF Phases
<1>3. \A p \in Phases : \A place : at' = [at EXCEPT ![p] = place]
        => \A q \in Phases \ {p} : at'[q] = at[q]
  BY DEF TypeOK
<1>4. CASE Preprocessor
  <2>1. at' = at
    BY <1>4 DEF Preprocessor, Decide, AddToCopier, SetUpDuplicates, AddToAdder, AddFirst,
       SetUpSecond, AddSecond, vars, workerVars
  <2>2. UNCHANGED <<alerts, asking>>
    BY <1>4 DEF Preprocessor, Decide, AddToCopier, SetUpDuplicates, AddToAdder
  <2>3. QED BY <1>1, <2>1, <2>2
<1>5. ASSUME NEW p \in Phases, PipeWorker(p)
      PROVE  Goal
  <2>1. CASE Inherited(p) \/ NoticePause(p) \/ GoOn(p) \/ (p = 2 /\ ForgetDuplicates)
    <3>1. UNCHANGED <<alerts, asking>>
      BY <2>1 DEF Inherited, NoticePause, GoOn, ForgetDuplicates
    <3>2. at[p] # "work" \/ at' = at
      BY <2>1 DEF Inherited, NoticePause, GoOn, ForgetDuplicates, Take, Reset, WakeUp,
                  Finish, Retry, WillSleep, Waiting, Pass, Block, PassDeleted,
                  NextIteration, vars, workerVars
    <3>3. at' = at \/ \E place : at' = [at EXCEPT ![p] = place]
      BY <2>1 DEF Inherited, NoticePause, GoOn, ForgetDuplicates, Take, Reset, WakeUp,
                  Finish, Retry, WillSleep, Waiting, Pass, Block, PassDeleted,
                  NextIteration, Move, vars, workerVars
    <3>4. QED BY <1>3, <3>1, <3>2, <3>3 DEF Waits
  <2>2. CASE CopyFails \/ AddTimesOut
    BY <1>2, <2>2 DEF CopyFails, AddTimesOut
  <2>3. CASE AddRaises
    <3>1. UNCHANGED <<alerts, asking, at>>
      BY <2>3 DEF AddRaises, vars, workerVars
    <3>2. QED BY <1>1, <3>1
  <2>4. CASE (p = 1 /\ (GiveUpCopy \/ \E skip \in BOOLEAN : Copy(skip))) \/ (p = 2 /\ TryAgain)
    <3>1. \E place : at' = [at EXCEPT ![p] = place]
      BY <2>4 DEF GiveUpCopy, Copy, TryAgain, Iterate, Move
    <3>2. /\ asking[p] \in {"no", "chosen", "answered"} /\ alerts' = alerts
          /\ asking' = [asking EXCEPT ![p] = "no"]
      BY <2>4 DEF GiveUpCopy, Copy, TryAgain
    <3>3. QED BY <1>3, <3>1, <3>2
  <2>5. CASE p = 2 /\ (AddNothing \/ AddSong \/ AddReference \/ AddUnheard)
    <3>1. asking[p] = "no" /\ UNCHANGED <<alerts, asking>>
      BY <2>5 DEF AddNothing, AddSong, AddReference, AddUnheard, Idle
    <3>2. \E place : at' = [at EXCEPT ![p] = place]
      BY <2>5 DEF AddNothing, AddSong, AddReference, AddUnheard, Iterate, Move
    <3>3. QED BY <1>3, <3>1, <3>2 DEF Waits
  <2>6. QED BY <1>5, <2>1, <2>2, <2>3, <2>4, <2>5 DEF PipeWorker, CopierWork, AdderWork
<1>6. CASE TakeDuplicates \/ RemoveDuplicates \/ CancelRest
  <2>1. UNCHANGED <<alerts, asking>>
    BY <1>6 DEF TakeDuplicates, RemoveDuplicates, CancelRest
  <2>2. \A q \in Phases : at'[q] = at[q] \/ at[q] = "blocked"
    BY <1>6 DEF TakeDuplicates, RemoveDuplicates, CancelRest, WillCancel, RemoveAll,
       DeleteSemaphore, CreateSemaphore, vars, workerVars, TypeOK
  <2>3. QED BY <2>1, <2>2 DEF Waits
<1>7. CASE AnsweredCancel \/ AnswerContinue
  BY <1>7 DEF AnsweredCancel, AnswerContinue, PauseInv, vars, workerVars
<1>8. CASE AnswerCancel \/ UNCHANGED pipeVars
  BY <1>1, <1>8 DEF AnswerCancel, BeginCancel, pipeVars, vars, workerVars
<1>9. QED BY <1>4, <1>5, <1>6, <1>7, <1>8 DEF PipeNext, Main, Answer

\* A new alert, of one that had none.
LEMMA AskedPushed ==
  ASSUME alerts \in Seq(Senders), AskedStands, at' = at,
         NEW sender \in Senders, alerts' = <<sender>> \o alerts,
         sender = User => alerts = <<>>,
         sender \in Askers => ~IsShown(sender) /\ IsShown(sender)',
         \A q \in Askers \ {sender} : IsShown(q)' <=> IsShown(q),
         \A p \in Phases : asking'[p] # "no" => asking[p] # "no"
  PROVE  AskedStands'
<1>1. AskedWorks /\ ShownStands /\ UserBelow /\ User \notin Askers
  BY AskedParts DEF User, Askers, Phases, Style
<1>2. /\ Len(alerts)' = Len(alerts) + 1
      /\ \A q : AlertsOf(q)' = {i + 1 : i \in AlertsOf(q)}
                               \cup (IF q = sender THEN {1} ELSE {})
  BY AlertsPushed
<1>3. ASSUME NEW q \in Askers
      PROVE  IF IsShown(q)' THEN \E i \in DOMAIN alerts' : AlertsOf(q)' = {i}
             ELSE AlertsOf(q)' = {}
  <2>1. CASE q = sender
    <3>1. AlertsOf(q) = {}
      BY <1>1, <2>1 DEF ShownStands
    <3>2. AlertsOf(q)' = {1}
      BY <1>2, <2>1, <3>1
    <3>3. 1 \in DOMAIN alerts'
      BY <3>2 DEF AlertsOf
    <3>4. QED BY <2>1, <3>2, <3>3
  <2>2. CASE q # sender
    <3>1. IsShown(q)' <=> IsShown(q)
      BY <2>2
    <3>2. AlertsOf(q)' = {i + 1 : i \in AlertsOf(q)}
      BY <1>2, <2>2
    <3>3. CASE IsShown(q)
      <4>1. PICK i \in DOMAIN alerts : AlertsOf(q) = {i}
        BY <1>1, <3>3 DEF ShownStands
      <4>2. AlertsOf(q)' = {i + 1}
        BY <3>2, <4>1
      <4>3. i + 1 \in DOMAIN alerts'
        BY <4>2 DEF AlertsOf
      <4>4. QED BY <3>1, <3>3, <4>2, <4>3
    <3>4. CASE ~IsShown(q)
      BY <1>1, <3>1, <3>2, <3>4 DEF ShownStands
    <3>5. QED BY <3>3, <3>4
  <2>3. QED BY <2>1, <2>2
<1>4. ShownStands'
  BY <1>3 DEF ShownStands
<1>5. UserBelow'
  <2>1. CASE sender = User
    <3>1. AlertsOf(User) = {} /\ Len(alerts) = 0
      BY <2>1 DEF AlertsOf
    <3>2. QED BY <1>2, <2>1, <3>1 DEF UserBelow
  <2>2. CASE sender # User
    BY <1>1, <1>2, <2>2 DEF UserBelow
  <2>3. QED BY <2>1, <2>2
<1>6. AskedWorks'
  BY <1>1 DEF AskedWorks
<1>7. QED BY <1>4, <1>5, <1>6, AskedParts

\* The topmost alert goes, and it was not in vain.
LEMMA AskedPopped ==
  ASSUME alerts \in Seq(Senders), alerts # <<>>, AskedStands, at' = at,
         alerts' = Tail(alerts),
         \A q \in Askers : IsShown(q)' <=> IsShown(q) /\ q # Head(alerts),
         \A p \in Phases : asking'[p] # "no" => asking[p] # "no" \/ Head(alerts) = p
  PROVE  AskedStands'
<1>1. AskedWorks /\ ShownStands /\ UserBelow
  BY AskedParts
<1>2. /\ Len(alerts)' = Len(alerts) - 1 /\ Len(alerts) \in Nat
      /\ \A q : /\ AlertsOf(q)' = {i - 1 : i \in AlertsOf(q) \ {1}}
                /\ 1 \in AlertsOf(q) <=> q = Head(alerts)
                /\ AlertsOf(q) \subseteq Nat
  BY AlertsPopped
<1>3. ASSUME NEW q \in Askers
      PROVE  IF IsShown(q)' THEN \E i \in DOMAIN alerts' : AlertsOf(q)' = {i}
             ELSE AlertsOf(q)' = {}
  <2>1. CASE q = Head(alerts)
    <3>1. AlertsOf(q) = {1}
      BY <1>1, <1>2, <2>1 DEF ShownStands
    <3>2. AlertsOf(q)' = {}
      BY <1>2, <3>1
    <3>3. QED BY <2>1, <3>2
  <2>2. CASE q # Head(alerts)
    <3>1. IsShown(q)' <=> IsShown(q)
      BY <2>2
    <3>2. AlertsOf(q)' = {i - 1 : i \in AlertsOf(q)}
      BY <1>2, <2>2
    <3>3. CASE IsShown(q)
      <4>1. PICK i \in DOMAIN alerts : AlertsOf(q) = {i}
        BY <1>1, <3>3 DEF ShownStands
      <4>2. AlertsOf(q)' = {i - 1}
        BY <3>2, <4>1
      <4>3. i - 1 \in DOMAIN alerts'
        BY <4>2 DEF AlertsOf
      <4>4. QED BY <3>1, <3>3, <4>2, <4>3
    <3>4. CASE ~IsShown(q)
      BY <1>1, <3>1, <3>2, <3>4 DEF ShownStands
    <3>5. QED BY <3>3, <3>4
  <2>3. QED BY <2>1, <2>2
<1>4. ShownStands'
  BY <1>3 DEF ShownStands
<1>5. UserBelow'
  BY <1>1, <1>2 DEF UserBelow
<1>6. AskedWorks'
  <2>1. ASSUME NEW p \in Phases, Head(alerts) = p
        PROVE  asking[p] # "no"
    <3>1. p \in Askers /\ p # Style
      BY DEF Askers, Phases, Style
    <3>2. IsShown(p)
      BY <1>1, <1>2, <2>1, <3>1 DEF ShownStands
    <3>3. QED BY <3>1, <3>2 DEF IsShown
  <2>2. QED BY <1>1, <2>1 DEF AskedWorks
<1>7. QED BY <1>4, <1>5, <1>6, AskedParts

\* Alerts come and go with the questions they were shown for.
LEMMA AskedStep ==
  ASSUME PipeTypes, AskedStands, [PipeNext]_pipeVars
  PROVE  AskedStands'
<1>1. /\ TypeOK /\ AskingTypes /\ PauseInv
      /\ alerts \in Seq(Senders)
      /\ at \in [Phases -> WorkerAt]
      /\ asking \in [Phases -> {"no", "posted", "shown", "answered",
                               "choose", "choosing", "chosen"}]
      /\ 1 \in Phases /\ 2 \in Phases /\ User \notin Askers /\ Style \notin Phases
  BY DEF PipeTypes, PipelineInv, PauseInv, AskingTypes, TypeOK, User, Style, Askers, Phases
<1>2. AskedWorks /\ ShownStands /\ UserBelow
  BY AskedParts
<1>3. ASSUME alerts' = alerts, \A q \in Askers : IsShown(q)' <=> IsShown(q),
             \A p \in Phases : asking'[p] # "no" => at'[p] = "work"
      PROVE  AskedStands'
  <2>1. \A q : AlertsOf(q)' = AlertsOf(q)
    BY <1>3 DEF AlertsOf
  <2>2. ShownStands' /\ UserBelow' /\ AskedWorks'
    BY <1>2, <1>3, <2>1 DEF ShownStands, UserBelow, AskedWorks
  <2>3. QED BY <2>2, AskedParts
<1>4. CASE UNCHANGED <<alerts, asking>> /\ \A p \in Phases : Waits(p)
  BY <1>2, <1>3, <1>4 DEF AskedWorks, Waits, IsShown
<1>5. ASSUME NEW p \in Phases, Ask(p)
      PROVE  AskedStands'
  <2>1. /\ alerts' = alerts /\ at' = at /\ at[p] = "work" /\ asking[p] \in {"no", "chosen"}
        /\ asking' = [asking EXCEPT ![p] = "posted"]
    BY <1>5 DEF Ask, Idle, vars, workerVars
  <2>2. QED BY <1>1, <1>2, <1>3, <2>1 DEF AskedWorks, IsShown, Askers
<1>6. CASE AskStyle
  <2>1. /\ alerts' = alerts /\ at' = at /\ at[1] = "work" /\ asking[1] = "no"
        /\ asking' = [asking EXCEPT ![1] = "choose"]
    BY <1>6 DEF AskStyle, Idle, vars, workerVars
  <2>2. QED BY <1>1, <1>2, <1>3, <2>1 DEF AskedWorks, IsShown, Askers
<1>7. ASSUME NEW p \in Phases, asking[p] \in {"no", "chosen", "answered"}, alerts' = alerts,
             asking' = [asking EXCEPT ![p] = "no"], \A q \in Phases \ {p} : at'[q] = at[q]
      PROVE  AskedStands'
  BY <1>1, <1>2, <1>3, <1>7 DEF AskedWorks, IsShown, Askers
<1>8. ASSUME NEW p \in Phases, ShowFailure(p)
      PROVE  AskedStands'
  <2>1. /\ p \in Senders /\ p # User /\ asking[p] = "posted" /\ at' = at
        /\ alerts' = <<p>> \o alerts /\ asking' = [asking EXCEPT ![p] = "shown"]
    BY <1>1, <1>8 DEF ShowFailure, Show, Senders, User, Phases, vars, workerVars
  <2>2. \A q \in Askers \ {p} : IsShown(q)' <=> IsShown(q)
    BY <1>1, <2>1 DEF IsShown, Askers
  <2>3. ~IsShown(p) /\ IsShown(p)'
    BY <1>1, <2>1 DEF IsShown
  <2>4. QED BY <1>1, <2>1, <2>2, <2>3, AskedPushed
<1>9. CASE ShowStyle
  <2>1. /\ Style \in Senders /\ Style # User /\ asking[1] = "choose" /\ at' = at
        /\ alerts' = <<Style>> \o alerts /\ asking' = [asking EXCEPT ![1] = "choosing"]
    BY <1>1, <1>9 DEF ShowStyle, Senders, User, Style, vars, workerVars
  <2>2. \A q \in Askers \ {Style} : IsShown(q)' <=> IsShown(q)
    BY <1>1, <2>1 DEF IsShown, Askers
  <2>3. ~IsShown(Style) /\ IsShown(Style)'
    BY <1>1, <2>1 DEF IsShown
  <2>4. QED BY <1>1, <2>1, <2>2, <2>3, AskedPushed
<1>10. CASE ShowUser
  <2>1. /\ User \in Senders /\ alerts' = <<User>> \o alerts /\ alerts = <<>>
        /\ asking' = asking /\ at' = at
    BY <1>10 DEF ShowUser, Show, Senders, vars, workerVars
  <2>2. \A q \in Askers : IsShown(q)' <=> IsShown(q)
    BY <2>1 DEF IsShown
  <2>3. QED BY <1>1, <2>1, <2>2, AskedPushed
<1>11. CASE Return /\ alerts # <<>> /\ Head(alerts) # Style /\ at' = at
  <2>1. /\ alerts' = Tail(alerts)
        /\ asking' = [p \in Phases |-> IF Head(alerts) = p THEN "answered" ELSE asking[p]]
    BY <1>11 DEF Return
  <2>2. ASSUME NEW q \in Phases
        PROVE  IsShown(q)' <=> IsShown(q) /\ q # Head(alerts)
    BY <1>1, <2>1 DEF IsShown
  <2>3. IsShown(Style)' <=> IsShown(Style)
    <3>1. asking[1] # "shown" => Head(alerts) # 1
      <4>1. asking[1] # "shown" => AlertsOf(1) = {}
        BY <1>1, <1>2 DEF ShownStands, IsShown, Askers
      <4>2. 1 \in AlertsOf(1) <=> 1 = Head(alerts)
        BY <1>1, <1>11, <2>1, AlertsPopped
      <4>3. QED BY <4>1, <4>2
    <3>2. QED BY <1>1, <2>1, <3>1 DEF IsShown
  <2>4. \A q \in Askers : IsShown(q)' <=> IsShown(q) /\ q # Head(alerts)
    BY <1>11, <2>2, <2>3 DEF Askers
  <2>5. \A p \in Phases : asking'[p] # "no" => asking[p] # "no" \/ Head(alerts) = p
    BY <2>1
  <2>6. QED BY <1>1, <1>11, <2>1, <2>4, <2>5, AskedPopped
<1>12. CASE AnswerStyle
  <2>1. /\ alerts # <<>> /\ Head(alerts) = Style /\ alerts' = Tail(alerts) /\ at' = at
        /\ asking' = [asking EXCEPT ![1] = "chosen"]
    BY <1>12 DEF AnswerStyle, vars, workerVars
  <2>2. asking[1] = "choosing"
    <3>1. 1 \in AlertsOf(Style)
      BY <1>1, <2>1, AlertsPopped
    <3>2. QED BY <1>2, <3>1 DEF ShownStands, IsShown, Askers
  <2>3. \A q \in Askers : IsShown(q)' <=> IsShown(q) /\ q # Head(alerts)
    BY <1>1, <2>1, <2>2 DEF IsShown, Askers
  <2>4. \A p \in Phases : asking'[p] # "no" => asking[p] # "no" \/ Head(alerts) = p
    BY <1>1, <2>1, <2>2
  <2>5. QED BY <1>1, <2>1, <2>3, <2>4, AskedPopped
<1>13. QED BY <1>1, <1>4, <1>5, <1>6, <1>7, <1>8, <1>9, <1>10, <1>11, <1>12, AskSteps
       DEF ShowAsked

\* A worker that has asked the user waits at the object it asked about, with one
\* alert on the screen from the moment the main thread hears of it until it is
\* answered, however alerts nest and whatever is stopped meanwhile
\* (SEThreadedTrackCopier.m:114, SECopyController.m:118-160).
THEOREM AskedStandsHolds == PipeSpec => []AskedStands
<1>1. PipeInit => AskedStands
  <2>1. PipeInit => \A q : AlertsOf(q) = {}
    BY DEF PipeInit, AlertsOf
  <2>2. PipeInit => \A p \in Phases : asking[p] = "no"
    BY DEF PipeInit
  <2>3. QED BY <2>1, <2>2 DEF AskedStands, ShownOnce, Phases
<1>2. QED BY <1>1, AskedStep, PipeTypesInit, PipeTypesStep, PTL DEF PipeSpec

-----------------------------------------------------------------------------
(* Nobody cancels: files, songs and references.                            *)

\* A track that is added as a song of its own.
Own(t) == t \in offered \cap Wanted /\ reference[t] = Nil

\* What the adder is through with, as far as it has heard of it.
Settled(t) == library[t] > 0 \/ t \in unheard

ThroughAdded == \A t \in Through \cap path \cap Wanted : reference[t] = Nil => Settled(t)

\* A reference is to a track that comes before it and is a song of its own.
ReferenceInv ==
  /\ reference \in [Objects -> Objects \cup {Nil}]
  /\ path \subseteq Objects
  /\ \A t \in duplicates : Own(t)
  /\ \A t \in Objects : library[t] > 0 => Own(t)
  /\ \A t \in Objects : reference[t] # Nil => Own(reference[t])
  /\ \A i, j \in DOMAIN Line : reference[Line[j]] = Line[i] => i < j

FlowAll == ~MayCancel /\ todo = <<>> /\ PhasedInv /\ QueueInv /\ SongsInv /\ FlowInv

\* Nobody cancels, so the phases go on as those of Spec.
LEMMA FlowStays ==
  ASSUME FlowAll, [PipeNext]_pipeVars
  PROVE  FlowAll' /\ [Next]_vars
<1> USE DEF FlowAll
<1>1. [Next]_vars
  BY PipeStepsPhases DEF PhasedStep, Cancel, RemoveAll, WillCancel, DeleteSemaphore,
     CreateSemaphore, Step
<1>2. todo' = todo
  BY <1>1 DEF vars, Next, Adder, AddFirst, SetUpSecond, AddSecond, Worker, Take, Reset,
     WillSleep, WakeUp, Waiting, Pass, Block, PassDeleted, Iterate, Finish, Retry, NextIteration
<1>3. TypeOK /\ Held
  <2>1. TypeOK /\ InHand
    BY DEF PhasedInv
  <2>2. ASSUME NEW p \in Phases, at[p] \in AtWork
        PROVE  hand[p] \in Objects
    <3>1. active[p] \in Seq(Objects) /\ active[p] # <<>> /\ hand[p] = Head(active[p])
      BY <2>1, <2>2, LineTypes DEF InHand
    <3>2. QED BY <3>1, HeadTailProperties
  <2>3. QED BY <2>1, <2>2 DEF Held
<1>4. QED
  BY <1>1, <1>2, <1>3, PhasedNext, PipeStepsPhases, PhasedCancels, QueueStep, SongsStep, FlowStep

\* The files: only the copier makes one, of the track it is at.
LEMMA PathStep ==
  ASSUME [PipeNext]_pipeVars
  PROVE  path' \subseteq path \/ (at[1] = "work" /\ path' \subseteq path \cup {hand[1]})
<1> DEFINE Goal == path' \subseteq path \/ (at[1] = "work" /\ path' \subseteq path \cup {hand[1]})
<1> USE DEF trackVars, choiceVars, duplicateVars, addedVars
<1>1. CASE Preprocessor
  BY <1>1 DEF Preprocessor, Decide, AddToCopier, SetUpDuplicates, AddToAdder
<1>2. ASSUME NEW p \in Phases, PipeWorker(p)
      PROVE  Goal
  <2>1. ASSUME NEW skip \in BOOLEAN, Copy(skip)
        PROVE  Goal
    BY <2>1 DEF Copy, Iterate
  <2>2. CASE ~\E skip \in BOOLEAN : Copy(skip)
    BY <1>2, <2>2 DEF PipeWorker, Inherited, NoticePause, GoOn, CopierWork, AskStyle,
                      CopyFails, GiveUpCopy, Ask, ForgetDuplicates, AdderWork, AddNothing,
                      AddSong, AddReference, AddUnheard, AddTimesOut, TryAgain, AddRaises
  <2>3. QED BY <2>1, <2>2
<1>3. CASE Main \/ Answer \/ ShowUser
  BY <1>3 DEF Main, ShowAsked, ShowFailure, ShowStyle, Show, TakeDuplicates,
              RemoveDuplicates, CancelRest, AnsweredCancel, Return, Answer, AnswerContinue,
              AnswerStyle, AnswerCancel, ShowUser
<1>4. CASE UNCHANGED pipeVars
  BY <1>4 DEF pipeVars
<1>5. QED BY <1>1, <1>2, <1>3, <1>4 DEF PipeNext

\* The references and the duplicates: the preprocessor and the adder's set up.
LEMMA TracksStep ==
  ASSUME [PipeNext]_pipeVars
  PROVE  \/ \E array \in Arrays : Decide(array)
         \/ SetUpDuplicates
         \/ reference' = reference /\ duplicates' \subseteq duplicates
<1> DEFINE Goal == \/ \E array \in Arrays : Decide(array)
                   \/ SetUpDuplicates
                   \/ reference' = reference /\ duplicates' \subseteq duplicates
<1> USE DEF trackVars, choiceVars, duplicateVars, addedVars
<1>1. CASE Preprocessor
  BY <1>1 DEF Preprocessor, AddToCopier, AddToAdder
<1>2. ASSUME NEW p \in Phases, PipeWorker(p)
      PROVE  Goal
  BY <1>2 DEF PipeWorker, Inherited, NoticePause, GoOn, CopierWork, AskStyle, Copy,
              CopyFails, GiveUpCopy, Ask, ForgetDuplicates, AdderWork, AddNothing, AddSong,
              AddReference, AddUnheard, AddTimesOut, TryAgain, AddRaises
<1>3. CASE Main \/ Answer \/ ShowUser
  BY <1>3 DEF Main, ShowAsked, ShowFailure, ShowStyle, Show, TakeDuplicates,
              RemoveDuplicates, CancelRest, AnsweredCancel, Return, Answer, AnswerContinue,
              AnswerStyle, AnswerCancel, ShowUser
<1>4. CASE UNCHANGED pipeVars
  BY <1>4 DEF pipeVars
<1>5. QED BY <1>1, <1>2, <1>3, <1>4 DEF PipeNext

\* The adder alone finishes with a track of the second phase.
LEMMA AdderFinishes ==
  ASSUME TypeOK, [PipeNext]_pipeVars, at[2] # "finished", at'[2] = "finished"
  PROVE  AddNothing \/ AddSong \/ AddReference \/ AddUnheard
<1> USE DEF TypeOK, Phases, Move
<1>1. CASE Preprocessor
  BY <1>1 DEF Preprocessor, Decide, AddToCopier, SetUpDuplicates, AddToAdder, AddFirst,
              SetUpSecond, AddSecond, vars, workerVars
<1>2. ASSUME NEW p \in Phases, PipeWorker(p)
      PROVE  AddNothing \/ AddSong \/ AddReference \/ AddUnheard
  <2>1. CASE Inherited(p)
    BY <2>1 DEF Inherited, Take, Reset, WakeUp, Finish, Retry, WillSleep, Waiting, Pass,
                Block, PassDeleted
  <2>2. CASE NoticePause(p) \/ GoOn(p)
    BY <2>2 DEF NoticePause, GoOn, NextIteration, vars, workerVars
  <2>3. CASE p = 1 /\ CopierWork
    BY <2>3 DEF CopierWork, AskStyle, Copy, CopyFails, GiveUpCopy, Ask, Iterate, vars,
                workerVars
  <2>4. CASE p = 2 /\ ForgetDuplicates
    BY <2>4 DEF ForgetDuplicates, WillSleep
  <2>5. CASE p = 2 /\ AdderWork
    BY <2>5 DEF AdderWork, AddTimesOut, TryAgain, AddRaises, Ask, Iterate, vars, workerVars
  <2>6. QED BY <1>2, <2>1, <2>2, <2>3, <2>4, <2>5 DEF PipeWorker
<1>3. CASE Main
  BY <1>3 DEF Main, ShowAsked, ShowFailure, ShowStyle, Show, TakeDuplicates,
              RemoveDuplicates, CancelRest, AnsweredCancel, WillCancel, RemoveAll,
              DeleteSemaphore, CreateSemaphore, vars, workerVars
<1>4. CASE Answer \/ ShowUser
  BY <1>4 DEF Answer, AnswerContinue, AnswerStyle, AnswerCancel, BeginCancel, ShowUser,
              Show, vars, workerVars
<1>5. CASE UNCHANGED pipeVars
  BY <1>5 DEF pipeVars, vars, workerVars
<1>6. QED BY <1>1, <1>2, <1>3, <1>4, <1>5 DEF PipeNext

\* What iTunes was not heard about, nothing tells later.
LEMMA UnheardGrows == [PipeNext]_pipeVars => unheard \subseteq unheard'
<1> SUFFICES ASSUME [PipeNext]_pipeVars PROVE unheard \subseteq unheard'
  OBVIOUS
<1> USE DEF trackVars, choiceVars, duplicateVars, addedVars
<1>1. CASE Preprocessor
  BY <1>1 DEF Preprocessor, Decide, AddToCopier, SetUpDuplicates, AddToAdder
<1>2. ASSUME NEW p \in Phases, PipeWorker(p)
      PROVE  unheard \subseteq unheard'
  BY <1>2 DEF PipeWorker, Inherited, NoticePause, GoOn, CopierWork, AskStyle, Copy,
              CopyFails, GiveUpCopy, Ask, ForgetDuplicates, AdderWork, AddNothing, AddSong,
              AddReference, AddUnheard, AddTimesOut, TryAgain, AddRaises
<1>3. CASE Main \/ Answer \/ ShowUser
  BY <1>3 DEF Main, ShowAsked, ShowFailure, ShowStyle, Show, TakeDuplicates,
              RemoveDuplicates, CancelRest, AnsweredCancel, Return, Answer, AnswerContinue,
              AnswerStyle, AnswerCancel, ShowUser
<1>4. CASE UNCHANGED pipeVars
  BY <1>4 DEF pipeVars
<1>5. QED BY <1>1, <1>2, <1>3, <1>4 DEF PipeNext

\* A song that iTunes holds stays, and so does one it was not heard about.
LEMMA SettledGrows ==
  ASSUME SongsInv, [PipeNext]_pipeVars
  PROVE  \A t \in Objects : Settled(t) => Settled(t)'
<1>1. \A t \in Objects : library[t] > 0 => library'[t] > 0
  <2>1. CASE library' = library
    BY <2>1
  <2>2. CASE AddSong
    BY <2>2 DEF AddSong, SongsInv
  <2>3. QED BY <2>1, <2>2, LibraryStep
<1>2. QED BY <1>1, UnheardGrows DEF Settled

LEMMA ThroughStep ==
  ASSUME FlowAll, ThroughAdded, ReferenceInv, [PipeNext]_pipeVars
  PROVE  ThroughAdded'
<1> SUFFICES ASSUME NEW t \in Through' \cap path' \cap Wanted, reference'[t] = Nil
             PROVE  Settled(t)'
  BY DEF ThroughAdded
<1>1. TypeOK /\ PhasedInv /\ QueueInv /\ SongsInv /\ FlowInv /\ [Next]_vars
  BY FlowStays DEF FlowAll, PhasedInv
<1>2. t \in Objects
  BY PhasedAssumption
<1>3. CASE t \in Through
  <2>1. t \in done[1] /\ t \in offered
    BY <1>1, <1>3, ThroughDone DEF FlowInv
  <2>2. t \in path
    <3>1. at[1] = "work" => hand[1] \notin done[1]
      BY <1>1, PendingFirst DEF FlowInv, AtWork
    <3>2. QED BY <2>1, <3>1, PathStep
  <2>3. reference[t] = Nil
    <3>1. CASE reference' = reference
      BY <3>1
    <3>2. ASSUME NEW array \in Arrays, Decide(array)
          PROVE  reference[t] = Nil
      <4>1. t \notin Elements(array)
        BY <2>1, <3>2 DEF Decide
      <4>2. QED BY <1>2, <3>2, <4>1 DEF Decide
    <3>3. QED BY <3>1, <3>2, TracksStep DEF SetUpDuplicates, choiceVars
  <2>4. Settled(t)
    BY <1>3, <2>2, <2>3 DEF ThroughAdded
  <2>5. QED BY <1>1, <1>2, <2>4, SettledGrows
<1>4. CASE t \notin Through
  <2>1. at[2] # "finished" /\ at'[2] = "finished" /\ t = hand[2]
    <3>1. CASE Next
      BY <1>1, <1>4, <3>1, ThroughGrows DEF Through
    <3>2. CASE UNCHANGED vars
      BY <1>4, <3>2 DEF Through, vars, workerVars
    <3>3. QED BY <1>1, <3>1, <3>2
  <2>2. AddNothing \/ AddSong \/ AddReference \/ AddUnheard
    BY <1>1, <2>1, AdderFinishes
  <2>3. CASE AddNothing
    BY <2>1, <2>3 DEF AddNothing, Vain, Duplicated, choiceVars
  <2>4. CASE AddSong
    BY <1>1, <1>2, <2>1, <2>4 DEF AddSong, SongsInv, Settled
  <2>5. CASE AddReference
    BY <2>1, <2>5 DEF AddReference, choiceVars
  <2>6. CASE AddUnheard
    BY <2>1, <2>6 DEF AddUnheard, Settled
  <2>7. QED BY <2>2, <2>3, <2>4, <2>5, <2>6
<1>5. QED BY <1>3, <1>4

\* The preprocessor alone adds to the first phase.
LEMMA PreprocessorAdds ==
  ASSUME [PipeNext]_pipeVars, adding = "none", adding' = "setup"
  PROVE  \E array \in Arrays : AddToCopier(array)
<1> USE DEF adderVars, vars
<1>1. CASE Preprocessor
  BY <1>1 DEF Preprocessor, Decide, SetUpDuplicates, AddToAdder, SetUpSecond, AddSecond
<1>2. ASSUME NEW p \in Phases, PipeWorker(p)
      PROVE  adding' = adding
  <2>1. CASE Inherited(p) \/ NoticePause(p) \/ GoOn(p)
    BY <2>1 DEF Inherited, NoticePause, GoOn, Take, Reset, WakeUp, Finish, Retry, WillSleep,
       Waiting, Pass, Block, PassDeleted, NextIteration
  <2>2. CASE CopierWork
    BY <2>2 DEF CopierWork, AskStyle, Copy, CopyFails, GiveUpCopy, Ask, Iterate
  <2>3. CASE ForgetDuplicates \/ AdderWork
    BY <2>3 DEF ForgetDuplicates, WillSleep, AdderWork, AddNothing, AddSong, AddReference,
                AddUnheard, AddTimesOut, TryAgain, AddRaises, Ask, Iterate
  <2>4. QED BY <1>2, <2>1, <2>2, <2>3 DEF PipeWorker
<1>3. CASE Main
  BY <1>3 DEF Main, ShowAsked, ShowFailure, ShowStyle, Show, TakeDuplicates,
              RemoveDuplicates, CancelRest, AnsweredCancel, WillCancel, RemoveAll,
              DeleteSemaphore, CreateSemaphore
<1>4. CASE Answer \/ ShowUser
  BY <1>4 DEF Answer, AnswerContinue, AnswerStyle, AnswerCancel, BeginCancel, ShowUser, Show
<1>5. CASE UNCHANGED pipeVars
  BY <1>5 DEF pipeVars
<1>6. QED BY <1>1, <1>2, <1>3, <1>4, <1>5 DEF PipeNext

\* The order of references in the line.
InOrder == \A i, j \in DOMAIN Line : reference[Line[j]] = Line[i] => i < j

LEMMA OrderStep ==
  ASSUME FlowAll, ReferenceInv, [PipeNext]_pipeVars,
         \A t \in Elements(Line) : reference'[t] = reference[t]
  PROVE  InOrder'
<1>1. /\ TypeOK /\ PhasedInv /\ QueueInv /\ [Next]_vars
      /\ Uncancelled /\ InHand
      /\ Line \in Seq(Objects) /\ Pending(1) \in Seq(Objects)
  BY FlowStays, LineTypes DEF FlowAll, PhasedInv
<1>2. DOMAIN Line = 1..Len(Line) /\ Len(Line) \in Nat
  BY <1>1, LenProperties
<1>3. \A i \in DOMAIN Line : reference'[Line[i]] = reference[Line[i]]
  BY DEF Elements
<1>4. ASSUME Line' = Line
      PROVE  InOrder'
  BY <1>3, <1>4 DEF InOrder, ReferenceInv
<1>5. ASSUME NEW array \in Arrays, AddToCopier(array)
      PROVE  InOrder'
  <2>1. Line' = Line \o array /\ array \in Seq(Objects)
    BY <1>1, <1>5, AddStep DEF AddToCopier
  <2>2. /\ Elements(array) \cap offered = {}
        /\ \A i \in DOMAIN array : array[i] \notin offered /\ array[i] \in Objects
    BY <1>5, <2>1, ElementsOfSeq DEF AddToCopier, AddFirst, Elements
  <2>3. \A i \in DOMAIN Line : Line[i] \in offered /\ Line[i] \in Objects
    BY <1>1, ElementsOfSeq DEF QueueInv, Elements
  <2>4. \A t \in Objects : reference'[t] # Nil => reference'[t] \in offered
    BY <1>5 DEF AddToCopier, ReferenceInv, Own
  <2>5. /\ DOMAIN (Line \o array) = 1..(Len(Line) + Len(array))
        /\ Len(array) \in Nat
        /\ \A i \in 1..(Len(Line) + Len(array)) :
             (Line \o array)[i] = IF i <= Len(Line) THEN Line[i] ELSE array[i - Len(Line)]
    BY <1>1, <2>1, ConcatProperties, LenProperties
  <2>6. ASSUME NEW i \in 1..(Len(Line) + Len(array)), NEW j \in 1..(Len(Line) + Len(array)),
               reference'[(Line \o array)[j]] = (Line \o array)[i]
        PROVE  i < j
    <3>1. (Line \o array)[j] \in Objects /\ (Line \o array)[i] \in Objects
      <4>1. Line \o array \in Seq(Objects)
        BY <1>1, <2>1, ConcatProperties
      <4>2. QED BY <2>5, <2>6, <4>1, ElementOfSeq, LenProperties
    <3>2. (Line \o array)[i] \in offered
      BY <2>4, <2>6, <3>1, PhasedAssumption
    <3>3. i <= Len(Line)
      <4>1. CASE ~(i <= Len(Line))
        <5>1. i - Len(Line) \in DOMAIN array
          BY <1>2, <2>1, <2>5, <4>1, LenProperties
        <5>2. QED BY <2>2, <2>5, <3>2, <4>1, <5>1
      <4>2. QED BY <4>1
    <3>4. CASE j <= Len(Line)
      <4>1. i \in DOMAIN Line /\ j \in DOMAIN Line /\ reference[Line[j]] = Line[i]
        BY <1>2, <1>3, <2>5, <2>6, <3>3, <3>4
      <4>2. QED BY <4>1 DEF ReferenceInv
    <3>5. CASE ~(j <= Len(Line))
      BY <1>2, <2>5, <3>3, <3>5
    <3>6. QED BY <3>4, <3>5
  <2>7. QED BY <2>1, <2>5, <2>6 DEF InOrder
<1>6. CASE Finish(2)
  <2>1. Line # <<>> /\ Line' = Tail(Line)
    BY <1>1, <1>6, FinishSecondStep
  <2>2. /\ DOMAIN Tail(Line) = 1..(Len(Line) - 1)
        /\ \A i \in 1..(Len(Line) - 1) : Tail(Line)[i] = Line[i + 1]
    BY <1>1, <2>1, HeadTailProperties, LenProperties
  <2>3. ASSUME NEW i \in 1..(Len(Line) - 1), NEW j \in 1..(Len(Line) - 1),
               reference'[Tail(Line)[j]] = Tail(Line)[i]
        PROVE  i < j
    <3>1. i + 1 \in DOMAIN Line /\ j + 1 \in DOMAIN Line
      BY <1>2
    <3>2. reference[Line[j + 1]] = Line[i + 1]
      BY <1>3, <2>2, <2>3, <3>1
    <3>3. i + 1 < j + 1
      BY <3>1, <3>2 DEF ReferenceInv
    <3>4. QED BY <1>2, <3>3
  <2>4. QED BY <2>1, <2>2, <2>3 DEF InOrder
<1>7. CASE Line' = Line \/ Finish(2) \/ \E array \in Arrays : AddToCopier(array)
  BY <1>4, <1>5, <1>6, <1>7
<1>8. Line' = Line \/ Finish(2) \/ \E array \in Arrays : AddFirst(array)
  <2>1. CASE UNCHANGED vars
    BY <2>1 DEF vars, queueVars, adderVars, Line, Pending
  <2>2. CASE Adder
    BY <1>1, <2>2, QuietAdder DEF Adder, Steady
  <2>3. ASSUME NEW p \in Phases, Worker(p)
        PROVE  Line' = Line \/ Finish(2)
    <3>1. CASE Finish(1)
      BY <1>1, <3>1, FinishFirstStep
    <3>2. CASE ~Finish(p)
      BY <1>1, <2>3, <3>2, QuietReset, QuietWorker DEF Worker, Steady
    <3>3. QED BY <3>1, <3>2 DEF Phases
  <2>4. QED BY <1>1, <2>1, <2>2, <2>3 DEF Next
<1>9. (\E array \in Arrays : AddFirst(array)) => \E array \in Arrays : AddToCopier(array)
  <2>1. ASSUME NEW array \in Arrays, AddFirst(array)
        PROVE  adding = "none" /\ adding' = "setup"
    BY <2>1 DEF AddFirst
  <2>2. QED BY <2>1, PreprocessorAdds
<1>10. QED BY <1>7, <1>8, <1>9

\* What the preprocessor has decided on a track, it does not change.
LEMMA DecidedOnce ==
  ASSUME FlowAll, [PipeNext]_pipeVars
  PROVE  /\ \A t \in offered \cap Objects : reference'[t] = reference[t]
         /\ \A t : Own(t) => t \in offered' \cap Wanted /\ reference'[t] = Nil
<1>1. ASSUME NEW t \in offered \cap Objects
      PROVE  reference'[t] = reference[t]
  <2>1. ASSUME NEW array \in Arrays, Decide(array)
        PROVE  reference'[t] = reference[t]
    <3>1. t \notin Elements(array)
      BY <2>1 DEF Decide
    <3>2. QED BY <2>1, <3>1 DEF Decide
  <2>2. CASE reference' = reference
    BY <2>2
  <2>3. QED BY <2>1, <2>2, TracksStep DEF SetUpDuplicates, choiceVars
<1>2. offered \subseteq offered'
  <2>1. TypeOK
    BY DEF FlowAll, PhasedInv
  <2>2. QED BY <2>1, PipeStepsPhases, PhasedCancels, QueueStep DEF FlowAll, Forth
<1>3. Wanted \subseteq Objects
  BY PhasedAssumption
<1>4. QED BY <1>1, <1>2, <1>3 DEF Own

LEMMA ReferenceStep ==
  ASSUME FlowAll, ReferenceInv, [PipeNext]_pipeVars
  PROVE  ReferenceInv'
<1>1. /\ TypeOK /\ PhasedInv /\ QueueInv /\ SongsInv
      /\ Line \in Seq(Objects) /\ Pending(2) \in Seq(Objects) /\ batch \in Seq(Objects)
  BY LineTypes DEF FlowAll, PhasedInv
<1>2. reference' \in [Objects -> Objects \cup {Nil}]
  <2>1. ASSUME NEW array \in Arrays, Decide(array)
        PROVE  reference' \in [Objects -> Objects \cup {Nil}]
    BY <2>1 DEF Decide, Findings, ReferenceInv
  <2>2. CASE reference' = reference
    BY <2>2 DEF ReferenceInv
  <2>3. QED BY <2>1, <2>2, TracksStep DEF SetUpDuplicates, choiceVars
<1>3. path' \subseteq Objects
  <2>1. at[1] = "work" => hand[1] \in Objects
    BY <1>1, PendingFirst, ElementsOfSeq DEF AtWork
  <2>2. QED BY <2>1, PathStep DEF ReferenceInv
<1>4. ASSUME NEW t \in duplicates'
      PROVE  t \in offered' \cap Wanted /\ reference'[t] = Nil
  <2>1. CASE t \in duplicates
    BY <2>1, DecidedOnce DEF ReferenceInv
  <2>2. CASE t \notin duplicates
    <3>1. SetUpDuplicates
      BY <1>4, <2>2, TracksStep DEF Decide, duplicateVars
    <3>2. t \in Elements(batch) /\ Duplicated(t)
      BY <1>4, <2>2, <3>1 DEF SetUpDuplicates
    <3>3. Elements(batch) \subseteq offered
      BY <1>1, DistinctConcat DEF Line, QueueInv
    <3>4. Own(t)
      BY <3>2, <3>3 DEF Duplicated, Own
    <3>5. QED BY <3>4, DecidedOnce
  <2>3. QED BY <2>1, <2>2
<1>5. ASSUME NEW t \in Objects, library'[t] > 0
      PROVE  t \in offered' \cap Wanted /\ reference'[t] = Nil
  <2>1. CASE library[t] > 0
    BY <2>1, DecidedOnce DEF ReferenceInv
  <2>2. CASE ~(library[t] > 0)
    <3>1. AddSong
      BY <1>5, <2>2, LibraryStep
    <3>2. t = hand[2]
      BY <1>1, <1>5, <2>2, <3>1 DEF AddSong, SongsInv
    <3>3. at[2] \in AtWork /\ Duplicated(t)
      BY <3>1, <3>2 DEF AddSong, Iterate, AtWork
    <3>4. Own(t)
      BY <1>1, <3>2, <3>3 DEF QueueInv, Duplicated, Own
    <3>5. QED BY <3>4, DecidedOnce
  <2>3. QED BY <2>1, <2>2
<1>6. ASSUME NEW t \in Objects, reference'[t] # Nil
      PROVE  /\ reference'[t] \in offered' \cap Wanted
             /\ reference'[reference'[t]] = Nil
  <2>1. Own(reference'[t])
    <3>1. CASE reference'[t] = reference[t]
      BY <1>6, <3>1 DEF ReferenceInv
    <3>2. CASE reference'[t] # reference[t]
      <4>1. PICK array \in Arrays : Decide(array)
        BY <3>2, TracksStep DEF SetUpDuplicates, choiceVars
      <4>2. PICK found \in Findings(array) :
              reference' = [u \in Objects |->
                              IF ReferenceHandling = "reference" /\ u \in Elements(array)
                              THEN found[u] ELSE reference[u]]
        BY <4>1 DEF Decide
      <4>3. t \in Elements(array) /\ reference'[t] = found[t]
        BY <3>2, <4>2
      <4>4. reference'[t] \in Similar(t)
        BY <1>6, <4>3 DEF Findings
      <4>5. QED BY <4>4 DEF Similar, ReferenceInv
    <3>3. QED BY <3>1, <3>2
  <2>2. QED BY <2>1, DecidedOnce
<1>7. InOrder'
  <2>1. Elements(Line) \subseteq offered \cap Objects
    BY <1>1, ElementsOfSeq DEF QueueInv
  <2>2. QED BY <2>1, DecidedOnce, OrderStep
<1>8. QED BY <1>2, <1>3, <1>4, <1>5, <1>6, <1>7 DEF ReferenceInv, InOrder, Own

\* A duplicate is of a track that the adder is not through with, or was not heard
\* about.
DuplicatesInv == duplicates \cap Through \subseteq unheard

\* The adder sleeps when it has gone through all it has taken.
RestInv == at[2] \in {"idle", "asleep", "awake"} => active[2] = <<>>

LEMMA DuplicatesStep ==
  ASSUME FlowAll, ReferenceInv, DuplicatesInv, [PipeNext]_pipeVars
  PROVE  DuplicatesInv'
<1> SUFFICES ASSUME NEW t \in duplicates', t \in Through'
             PROVE  t \in unheard'
  BY DEF DuplicatesInv
<1>1. /\ TypeOK /\ PhasedInv /\ QueueInv /\ FlowInv /\ SongsInv /\ [Next]_vars
      /\ active[2] \in Seq(Objects) /\ objects[2] \in Seq(Objects)
      /\ batch \in Seq(Objects)
  BY FlowStays, LineTypes DEF FlowAll, PhasedInv
<1>2. CASE t \in duplicates
  <2>1. Own(t) /\ (t \in Through => t \in unheard)
    BY <1>2 DEF DuplicatesInv, ReferenceInv
  <2>2. CASE t \in Through
    BY <2>1, <2>2, UnheardGrows
  <2>3. CASE t \notin Through
    <3>1. at[2] # "finished" /\ at'[2] = "finished" /\ t = hand[2]
      <4>1. CASE Next
        BY <1>1, <2>3, <4>1, ThroughGrows DEF Through
      <4>2. CASE UNCHANGED vars
        BY <2>3, <4>2 DEF Through, vars, workerVars
      <4>3. QED BY <1>1, <4>1, <4>2
    <3>2. AddNothing \/ AddSong \/ AddReference \/ AddUnheard
      BY <1>1, <3>1, AdderFinishes
    <3>3. QED BY <2>1, <3>1, <3>2 DEF AddNothing, AddSong, AddReference, AddUnheard, Own
  <2>4. QED BY <2>2, <2>3
<1>3. CASE t \notin duplicates
  <2>1. SetUpDuplicates
    BY <1>3, TracksStep DEF Decide, duplicateVars
  <2>2. t \in Elements(batch)
    BY <1>3, <2>1 DEF SetUpDuplicates
  <2>3. t \in Through
    BY <2>1 DEF SetUpDuplicates, SetUpSecond, workerVars, Through
  <2>4. /\ Elements(batch) \subseteq Elements(Line)
        /\ Elements(active[2]) \cap Elements(batch) = {}
    <3>1. Line = active[2] \o (objects[2] \o batch) /\ objects[2] \o batch \in Seq(Objects)
      BY <1>1, LineParts
    <3>2. /\ Elements(Line) = Elements(active[2]) \cup Elements(objects[2] \o batch)
          /\ Elements(active[2]) \cap Elements(objects[2] \o batch) = {}
      BY <1>1, <3>1, DistinctConcat DEF QueueInv
    <3>3. Elements(batch) \subseteq Elements(objects[2] \o batch)
      BY <1>1, DistinctConcat
    <3>4. QED BY <3>2, <3>3
  <2>5. at[2] = "finished" /\ t = hand[2]
    BY <1>1, <2>2, <2>3, <2>4 DEF Through, FlowInv
  <2>6. active[2] # <<>> /\ t = Head(active[2])
    BY <1>1, <2>5, ThroughDone
  <2>7. t \in Elements(active[2])
    BY <1>1, <2>6, EmptySeq, LenProperties DEF Elements
  <2>8. QED BY <2>2, <2>4, <2>7
<1>4. QED BY <1>2, <1>3

LEMMA RestStep ==
  ASSUME TypeOK, RestInv, [Next]_vars
  PROVE  RestInv'
<1> USE DEF RestInv, TypeOK, Phases, Move
<1>1. CASE Adder
  BY <1>1 DEF Adder, AddFirst, SetUpSecond, AddSecond, workerVars, queueVars
<1>2. CASE Worker(1)
  BY <1>2 DEF Worker, Take, Reset, WillSleep, WakeUp, Iterate, Finish, Retry, NextIteration,
     Waiting, Pass, Block, PassDeleted, queueVars
<1>3. CASE Worker(2)
  <2>1. CASE Reset(2)
    BY <2>1 DEF Reset
  <2>2. CASE WillSleep(2) \/ WakeUp(2)
    BY <2>2 DEF WillSleep, WakeUp, queueVars
  <2>3. CASE ~(Reset(2) \/ WillSleep(2) \/ WakeUp(2))
    <3>1. at'[2] \notin {"idle", "asleep", "awake"}
      BY <1>3, <2>3 DEF Worker, Take, Iterate, Finish, Retry, NextIteration,
         Waiting, Pass, Block, PassDeleted
    <3>2. QED BY <3>1
  <2>4. QED BY <2>1, <2>2, <2>3
<1>4. CASE UNCHANGED vars
  BY <1>4 DEF vars, workerVars, queueVars
<1>5. QED BY <1>1, <1>2, <1>3, <1>4 DEF Next

UncancelledInv ==
  FlowAll /\ ThroughAdded /\ ReferenceInv /\ DuplicatesInv /\ RestInv

\* The invariant of a pipeline that nobody cancels.
LEMMA UncancelledHolds == PipeSpec /\ ~MayCancel => []UncancelledInv
<1>1. PipeInit /\ ~MayCancel => UncancelledInv
  <2> SUFFICES ASSUME PipeInit, ~MayCancel PROVE UncancelledInv
    OBVIOUS
  <2> USE DEF PipeInit, Init
  <2>1. PhasedInv
    BY PhasedInit
  <2>2. QueueInv /\ SongsInv
    BY PipelineInit DEF PipelineInv
  <2>3. Line = <<>> /\ Pending(1) = <<>> /\ done[1] = {} /\ done[2] = {} /\ at[2] = "top"
    BY DEF Line, Pending, Phases
  <2>4. Elements(Line) = {} /\ Elements(Pending(1)) = {} /\ DOMAIN Line = {}
    BY <2>3 DEF Elements
  <2>5. FlowInv /\ Through = {}
    BY <2>3, <2>4 DEF FlowInv, Through
  <2>6. ThroughAdded
    BY <2>5 DEF ThroughAdded
  <2>7. ReferenceInv
    BY <2>4 DEF ReferenceInv
  <2>8. DuplicatesInv /\ RestInv
    BY <2>3, <2>5 DEF DuplicatesInv, RestInv
  <2>9. QED BY <2>1, <2>2, <2>5, <2>6, <2>7, <2>8 DEF FlowAll, UncancelledInv
<1>2. UncancelledInv /\ [PipeNext]_pipeVars => UncancelledInv'
  <2>1. FlowAll => TypeOK
    BY DEF FlowAll, PhasedInv
  <2>2. QED
    BY <2>1, FlowStays, ThroughStep, ReferenceStep, DuplicatesStep, RestStep DEF UncancelledInv
<1>3. QED BY <1>1, <1>2, PTL DEF PipeSpec

\* A track the adder is through with, and whose file the copier has made, is in
\* the library unless iTunes was not heard: nothing is looked for too early
\* (SEThreadedTrackAdder.m:209-215).
THEOREM CopiesAreAdded == PipeSpec /\ ~MayCancel => []CopiedIsAdded
<1>1. UncancelledInv => CopiedIsAdded
  BY DEF UncancelledInv, ThroughAdded, Settled, Through, CopiedIsAdded
<1>2. QED BY <1>1, UncancelledHolds, PTL

\* A reference is made to a track that the library has by then, although the
\* preprocessor chose it before it was copied (SEThreadedTrackPreprocessor.m:120);
\* or one that iTunes was not heard about.
THEOREM ReferencesAreReal == PipeSpec /\ ~MayCancel => []ReferenceIsReal
<1>1. UncancelledInv => ReferenceIsReal
  <2> SUFFICES ASSUME UncancelledInv, at[2] = "work", reference[hand[2]] \in path
               PROVE  Settled(reference[hand[2]])
    BY DEF ReferenceIsReal, Settled
  <2> DEFINE t == hand[2]
             r == reference[hand[2]]
  <2>1. /\ TypeOK /\ PhasedInv /\ QueueInv /\ FlowInv /\ ReferenceInv /\ ThroughAdded
        /\ Line \in Seq(Objects)
    BY LineTypes DEF UncancelledInv, FlowAll, PhasedInv
  <2>2. active[2] # <<>> /\ t = Head(active[2])
    BY <2>1, ThroughDone
  <2>3. Line # <<>> /\ t = Line[1] /\ 1 \in DOMAIN Line /\ t \in Objects
    <3>1. Line # <<>> /\ Head(Line) = t
      BY <2>1, <2>2, LineParts
    <3>2. QED BY <2>1, <3>1, EmptySeq, LenProperties, HeadTailProperties
  <2>4. r # Nil /\ Own(r)
    BY <2>1, <2>3, PhasedAssumption DEF ReferenceInv
  <2>5. r \notin Elements(Line)
    <3>1. ASSUME NEW i \in DOMAIN Line, r = Line[i]
          PROVE  FALSE
      <4>1. i < 1
        BY <2>1, <2>3, <3>1 DEF ReferenceInv
      <4>2. QED BY <2>1, <4>1, LenProperties
    <3>2. QED BY <3>1 DEF Elements
  <2>6. r \in done[2]
    BY <2>1, <2>4, <2>5 DEF FlowInv, Own
  <2>7. QED BY <2>1, <2>4, <2>6 DEF ThroughAdded, Through, Own
<1>2. QED BY <1>1, UncancelledHolds, PTL

\* Without a cancel, the duplicates left when all is quiet are those of tracks that
\* were taken as added although iTunes was not heard (SEThreadedTrackAdder.m:264):
\* every other one has become a track or was removed.
THEOREM GhostsAreUnheard == PipeSpec /\ ~MayCancel => []GhostsUnheard
<1>1. UncancelledInv => GhostsUnheard
  <2> SUFFICES ASSUME UncancelledInv, Quiet, NEW t \in duplicates, t \notin unheard
               PROVE  FALSE
    BY DEF GhostsUnheard
  <2>1. /\ TypeOK /\ QueueInv /\ FlowInv /\ ReferenceInv /\ DuplicatesInv /\ RestInv
        /\ batch \in Seq(Objects)
    BY LineTypes DEF UncancelledInv, FlowAll, PhasedInv
  <2>2. t \in offered /\ t \notin Through
    BY <2>1 DEF ReferenceInv, Own, DuplicatesInv
  <2>3. t \in Elements(Line)
    BY <2>1, <2>2 DEF FlowInv, Through
  <2>4. active[2] = <<>> /\ objects[2] = <<>> /\ batch = <<>>
    BY <2>1 DEF Quiet, RestInv, QueueInv, Phases
  <2>5. Line = <<>>
    BY <2>4 DEF Line, Pending
  <2>6. QED BY <2>3, <2>5 DEF Elements
<1>2. QED BY <1>1, UncancelledHolds, PTL

-----------------------------------------------------------------------------
(* The copying that the user asks for.                                     *)

\* The first phase never leaves a track incomplete, so that no track comes back
\* behind the one at hand, ...
FirstInv ==
  /\ at[1] # "again"
  /\ Distinct(Behind(1))
  /\ Elements(Behind(1)) \subseteq offered
  /\ hand[1] # Nil => hand[1] \in offered \ Elements(Behind(1))

\* ... and a track that the copier may still copy has no file yet: giving up a
\* copy takes no file away.
FilesInv ==
  /\ path \subseteq offered
  /\ path \cap Elements(Behind(1)) = {}
  /\ hand[1] \in path => at[1] = "finished"

\* What SongsInv is for songs: no track is a reference that may still be added.
SettledInv ==
  /\ referenced \subseteq offered
  /\ \A t \in referenced : t \in Elements(Line) => at[2] = "finished" /\ hand[2] = t
  /\ at[2] \in BeforeEnd => hand[2] \notin referenced

OriginInv == \A t \in Objects : reference[t] # Nil => Origin[reference[t]] = Origin[t]

CopyingInv ==
  PipeTypes /\ QueuesInv /\ FirstInv /\ FilesInv /\ SettledInv /\ OriginInv

\* What a step may do to the first phase.
FirstForth ==
  /\ offered \subseteq offered'
  /\ \A t \in Elements(Behind(1))' : t \in Elements(Behind(1)) \/ t \notin offered
  /\ hand'[1] # Nil => hand'[1] = hand[1] \/ hand'[1] \in Elements(Behind(1))
  /\ at[1] = "finished" => at'[1] = "finished" \/ hand'[1] = Nil

LEMMA BehindTypes ==
  ASSUME TypeOK, NEW p \in Phases
  PROVE  Behind(p) \in Seq(Objects)
<1> DEFINE front == IF hand[p] # Nil /\ active[p] # <<>> THEN Tail(active[p]) ELSE active[p]
<1>1. active[p] \in Seq(Objects) /\ objects[p] \in Seq(Objects)
  BY LineTypes
<1>2. front \in Seq(Objects)
  BY <1>1, HeadTailProperties
<1>3. QED BY <1>1, <1>2, ConcatProperties DEF Behind

\* The copier is through with every track it is at.
LEMMA NeverAgain ==
  ASSUME TypeOK, at[1] # "again", [PipeNext]_pipeVars
  PROVE  at'[1] # "again"
<1> USE DEF TypeOK, Phases, Move
<1>1. CASE Preprocessor
  BY <1>1 DEF Preprocessor, Decide, AddToCopier, SetUpDuplicates, AddToAdder, AddFirst,
              SetUpSecond, AddSecond, vars, workerVars
<1>2. ASSUME NEW p \in Phases, PipeWorker(p)
      PROVE  at'[1] # "again"
  <2>1. CASE Inherited(p)
    BY <2>1 DEF Inherited, Take, Reset, WakeUp, Finish, Retry, WillSleep, Waiting, Pass,
                Block, PassDeleted
  <2>2. CASE NoticePause(p) \/ GoOn(p)
    BY <2>2 DEF NoticePause, GoOn, NextIteration, vars, workerVars
  <2>3. CASE p = 1 /\ CopierWork
    BY <2>3 DEF CopierWork, AskStyle, Copy, CopyFails, GiveUpCopy, Ask, Iterate, vars,
                workerVars
  <2>4. CASE p = 2 /\ ForgetDuplicates
    BY <2>4 DEF ForgetDuplicates, WillSleep
  <2>5. CASE p = 2 /\ AdderWork
    BY <2>5 DEF AdderWork, AddNothing, AddSong, AddReference, AddUnheard, AddTimesOut,
                TryAgain, AddRaises, Ask, Iterate, vars, workerVars
  <2>6. QED BY <1>2, <2>1, <2>2, <2>3, <2>4, <2>5 DEF PipeWorker
<1>3. CASE Main
  BY <1>3 DEF Main, ShowAsked, ShowFailure, ShowStyle, Show, TakeDuplicates,
              RemoveDuplicates, CancelRest, AnsweredCancel, WillCancel, RemoveAll,
              DeleteSemaphore, CreateSemaphore, vars, workerVars
<1>4. CASE Answer \/ ShowUser
  BY <1>4 DEF Answer, AnswerContinue, AnswerStyle, AnswerCancel, BeginCancel, ShowUser,
              Show, vars, workerVars
<1>5. CASE UNCHANGED pipeVars
  BY <1>5 DEF pipeVars, vars, workerVars
<1>6. QED BY <1>1, <1>2, <1>3, <1>4, <1>5 DEF PipeNext

\* A phase that has finished a track lets it go next.
LEMMA EndOfWork ==
  ASSUME TypeOK, PhasedStep, at[1] = "finished"
  PROVE  at'[1] = "finished" \/ hand'[1] = Nil
<1> USE DEF TypeOK, Phases, Move
<1>1. CASE Adder
  BY <1>1 DEF Adder, AddFirst, SetUpSecond, AddSecond, workerVars
<1>2. ASSUME NEW p \in Phases, Worker(p)
      PROVE  at'[1] = "finished" \/ hand'[1] = Nil
  BY <1>2 DEF Worker, Take, Reset, WillSleep, WakeUp, NextIteration, Waiting, Pass, Block,
              PassDeleted, Iterate, Finish, Retry
<1>3. CASE BeginCancel \/ Cancel
  BY <1>3 DEF BeginCancel, Cancel, RemoveAll, WillCancel, DeleteSemaphore, CreateSemaphore,
              workerVars
<1>4. CASE UNCHANGED vars
  BY <1>4 DEF vars, workerVars
<1>5. QED BY <1>1, <1>2, <1>3, <1>4 DEF PhasedStep, Next

\* Tracks come to the first phase once, and each is at hand once.
LEMMA FirstStep ==
  ASSUME QueuesInv, FirstInv, PhasedStep, at'[1] # "again"
  PROVE  FirstInv' /\ FirstForth
<1>1. TypeOK /\ TypeOK' /\ QueuesMove /\ Behind(1) \in Seq(Objects)
  <2>1. [CancelNext]_vars
    BY DEF PhasedStep, CancelNext
  <2>2. 1 \in Phases
    BY DEF Phases
  <2>3. QED BY <2>1, <2>2, QueuesStep, BehindTypes DEF QueuesInv
<1>2. at[1] = "finished" => at'[1] = "finished" \/ hand'[1] = Nil
  BY <1>1, EndOfWork
<1>3. Elements(Behind(1))' = Elements(Behind(1)') /\ Distinct(Behind(1))' = Distinct(Behind(1)')
  BY DEF Elements, Distinct
<1>4. ASSUME QueueStays(1), offered' = offered
      PROVE  FirstInv' /\ FirstForth
  BY <1>2, <1>4 DEF QueueStays, FirstInv, FirstForth, Elements, Distinct
<1>5. ASSUME NEW array \in Arrays, AddFirst(array), QueuePuts(1, array)
      PROVE  FirstInv' /\ FirstForth
  <2>1. /\ Distinct(array) /\ Elements(array) \cap offered = {}
        /\ offered' = offered \cup Elements(array)
    BY <1>5 DEF AddFirst
  <2>2. Behind(1)' = Behind(1) \o array /\ hand'[1] = hand[1]
    BY <1>5 DEF QueuePuts
  <2>3. array \in Seq(Objects)
    BY ArraysAreSeqs
  <2>4. Distinct(Behind(1)) /\ Elements(Behind(1)) \cap Elements(array) = {}
    BY <2>1 DEF FirstInv
  <2>5. /\ Elements(Behind(1) \o array) = Elements(Behind(1)) \cup Elements(array)
        /\ Distinct(Behind(1) \o array)
    BY <1>1, <2>1, <2>3, <2>4, DistinctConcat
  <2>6. /\ Elements(Behind(1)') = Elements(Behind(1)) \cup Elements(array)
        /\ Distinct(Behind(1)')
    BY <2>2, <2>5
  <2>7. QED BY <1>2, <1>3, <2>1, <2>2, <2>6 DEF FirstInv, FirstForth
<1>6. ASSUME OwnMoves(1)
      PROVE  FirstInv' /\ FirstForth
  <2>1. offered' = offered
    BY <1>6 DEF OwnMoves, Take, Finish, Retry, RemoveAll, adderVars
  <2>2. CASE QueueTakes(1)
    <3>1. /\ Behind(1) # <<>> /\ hand'[1] = Head(Behind(1)) /\ Behind(1)' = Tail(Behind(1))
      BY <2>2 DEF QueueTakes
    <3>2. /\ hand'[1] \in Elements(Behind(1)) /\ Distinct(Behind(1)')
          /\ Elements(Behind(1)') = Elements(Behind(1)) \ {hand'[1]}
      BY <1>1, <3>1, DistinctTail DEF FirstInv
    <3>3. QED BY <1>2, <1>3, <2>1, <3>2 DEF FirstInv, FirstForth
  <2>3. CASE QueueFinishes(1)
    BY <1>2, <1>3, <2>1, <2>3 DEF QueueFinishes, FirstInv, FirstForth
  <2>4. CASE QueueCancels(1)
    <3>1. Behind(1)' = <<>> /\ hand'[1] = hand[1]
      BY <2>4 DEF QueueCancels
    <3>2. Elements(Behind(1)') = {} /\ Distinct(Behind(1)')
      BY <3>1 DEF Elements, Distinct
    <3>3. QED BY <1>2, <1>3, <2>1, <3>1, <3>2 DEF FirstInv, FirstForth
  <2>5. ~Retry(1)
    BY DEF Retry, FirstInv
  <2>6. QED BY <1>6, <2>2, <2>3, <2>4, <2>5 DEF OwnMoves
<1>7. ASSUME OwnMoves(2)
      PROVE  offered' = offered
  BY <1>7 DEF OwnMoves, Take, Finish, Retry, RemoveAll, adderVars
<1>8. \A p \in Phases : p = 1 \/ p = 2
  BY DEF Phases
<1>9. AddSecond => offered' = offered
  BY DEF AddSecond
<1>10. QED BY <1>1, <1>4, <1>5, <1>6, <1>7, <1>8, <1>9 DEF QueuesMove, Other

\* Only the copier makes a file or takes one away.
LEMMA FileSteps ==
  ASSUME [PipeNext]_pipeVars
  PROVE  path' = path \/ (\E skip \in BOOLEAN : Copy(skip)) \/ GiveUpCopy
<1> USE DEF trackVars, choiceVars, duplicateVars, addedVars
<1>1. CASE Preprocessor
  BY <1>1 DEF Preprocessor, Decide, AddToCopier, SetUpDuplicates, AddToAdder
<1>2. ASSUME NEW p \in Phases, PipeWorker(p)
      PROVE  path' = path \/ (\E skip \in BOOLEAN : Copy(skip)) \/ GiveUpCopy
  BY <1>2 DEF PipeWorker, Inherited, NoticePause, GoOn, CopierWork, AskStyle, CopyFails,
              Ask, ForgetDuplicates, AdderWork, AddNothing, AddSong, AddReference,
              AddUnheard, AddTimesOut, TryAgain, AddRaises
<1>3. CASE Main \/ Answer \/ ShowUser
  BY <1>3 DEF Main, ShowAsked, ShowFailure, ShowStyle, Show, TakeDuplicates,
              RemoveDuplicates, CancelRest, AnsweredCancel, Return, Answer, AnswerContinue,
              AnswerStyle, AnswerCancel, ShowUser
<1>4. CASE UNCHANGED pipeVars
  BY <1>4 DEF pipeVars
<1>5. QED BY <1>1, <1>2, <1>3, <1>4 DEF PipeNext

\* What the copier does to a file it does to that of a track that has none yet.
LEMMA FileMade ==
  ASSUME QueuesInv, FirstInv, FilesInv, [PipeNext]_pipeVars
  PROVE  \/ path' = path
         \/ /\ at[1] = "work" /\ at'[1] = "finished" /\ UNCHANGED <<hand, queueVars, adderVars>>
            /\ hand[1] \in offered \ path /\ path' = path \cup {hand[1]}
            /\ UNCHANGED <<library, referenced>>
<1>1. TypeOK /\ Held /\ 1 \in Phases
  BY DEF QueuesInv, Phases
<1>2. ASSUME at[1] = "work"
      PROVE  hand[1] \in offered \ path
  BY <1>1, <1>2, PhasedAssumption DEF FirstInv, FilesInv, Held, AtWork
<1>3. ASSUME NEW skip \in BOOLEAN, Copy(skip), path' # path
      PROVE  /\ at[1] = "work" /\ at'[1] = "finished" /\ UNCHANGED <<hand, queueVars, adderVars>>
             /\ path' = path \cup {hand[1]}
             /\ UNCHANGED <<library, referenced>>
  BY <1>1, <1>3 DEF Copy, Iterate, Move, TypeOK, addedVars
<1>4. GiveUpCopy => path' = path
  BY <1>2 DEF GiveUpCopy, Iterate
<1>5. QED BY <1>2, <1>3, <1>4, FileSteps

LEMMA FilesStep ==
  ASSUME PipeTypes, QueuesInv, FirstInv, FilesInv, [PipeNext]_pipeVars
  PROVE  FirstInv' /\ FilesInv'
<1>1. TypeOK /\ PhasedStep /\ at'[1] # "again"
  BY PipeStepsPhases, NeverAgain DEF QueuesInv, FirstInv
<1>2. FirstInv' /\ FirstForth
  BY <1>1, FirstStep
<1>3. Nil \notin path
  BY PhasedAssumption DEF PipeTypes, TrackTypes
<1>4. CASE path' = path
  BY <1>2, <1>3, <1>4 DEF FilesInv, FirstForth
<1>5. CASE /\ at[1] = "work" /\ at'[1] = "finished" /\ UNCHANGED <<hand, queueVars, adderVars>>
           /\ hand[1] \in offered \ path /\ path' = path \cup {hand[1]}
  <2>1. Behind(1)' = Behind(1) /\ offered' = offered /\ hand' = hand
    BY <1>5 DEF Behind, queueVars, adderVars
  <2>2. Elements(Behind(1))' = Elements(Behind(1))
    BY <2>1 DEF Elements
  <2>3. hand[1] \notin Elements(Behind(1))
    <3>1. hand[1] # Nil
      BY <1>1, <1>5, PhasedAssumption DEF QueuesInv, Held, AtWork, Phases
    <3>2. QED BY <3>1 DEF FirstInv
  <2>4. QED BY <1>2, <1>5, <2>1, <2>2, <2>3 DEF FilesInv
<1>6. QED BY <1>4, <1>5, FileMade

\* Only one action adds a reference.
LEMMA ReferencedSteps ==
  ASSUME [PipeNext]_pipeVars
  PROVE  AddReference \/ referenced' = referenced
<1> USE DEF trackVars, choiceVars, duplicateVars, addedVars
<1>1. CASE Preprocessor
  BY <1>1 DEF Preprocessor, Decide, AddToCopier, SetUpDuplicates, AddToAdder
<1>2. ASSUME NEW p \in Phases, PipeWorker(p)
      PROVE  AddReference \/ referenced' = referenced
  BY <1>2 DEF PipeWorker, Inherited, NoticePause, GoOn, CopierWork, AskStyle, Copy,
              CopyFails, GiveUpCopy, Ask, ForgetDuplicates, AdderWork, AddNothing, AddSong,
              AddUnheard, AddTimesOut, TryAgain, AddRaises
<1>3. CASE Main \/ Answer \/ ShowUser
  BY <1>3 DEF Main, ShowAsked, ShowFailure, ShowStyle, Show, TakeDuplicates,
              RemoveDuplicates, CancelRest, AnsweredCancel, Return, Answer, AnswerContinue,
              AnswerStyle, AnswerCancel, ShowUser
<1>4. CASE UNCHANGED pipeVars
  BY <1>4 DEF pipeVars
<1>5. QED BY <1>1, <1>2, <1>3, <1>4 DEF PipeNext

LEMMA SettledStep ==
  ASSUME PipelineInv, SettledInv, [PipeNext]_pipeVars
  PROVE  SettledInv'
<1>1. TypeOK /\ Held /\ QueueInv /\ Forth
  BY PipeStepsPhases, PhasedCancels, QueueStep DEF PipelineInv
<1>2. CASE referenced' = referenced
  <2>1. referenced' \subseteq offered'
    BY <1>1, <1>2 DEF SettledInv, Forth
  <2>2. ASSUME NEW t \in referenced, t \in Elements(Line)'
        PROVE  at'[2] = "finished" /\ hand'[2] = t
    <3>1. t \in Elements(Line)
      BY <1>1, <2>2 DEF SettledInv, Forth
    <3>2. at[2] = "finished" /\ hand[2] = t
      BY <3>1 DEF SettledInv
    <3>3. QED BY <1>1, <2>2, <3>2 DEF Forth
  <2>3. ASSUME at'[2] \in BeforeEnd
        PROVE  hand'[2] \notin referenced
    <3>1. CASE at[2] \in BeforeEnd /\ hand'[2] = hand[2]
      BY <3>1 DEF SettledInv
    <3>2. CASE at[2] = "top" /\ hand'[2] \in Elements(Line)
      BY <3>2 DEF SettledInv
    <3>3. QED BY <1>1, <2>3, <3>1, <3>2 DEF Forth
  <2>4. QED BY <1>2, <2>1, <2>2, <2>3 DEF SettledInv
<1>3. CASE AddReference
  <2>1. /\ at[2] = "work" /\ at'[2] = "finished" /\ hand' = hand /\ offered' = offered
        /\ UNCHANGED queueVars /\ batch' = batch
    BY <1>1, <1>3 DEF AddReference, Iterate, Move, adderVars, TypeOK, Phases
  <2>2. Line' = Line
    BY <2>1 DEF Line, Pending, queueVars
  <2>3. Elements(Line)' = Elements(Line)
    BY <2>2 DEF Elements
  <2>4. hand[2] \in offered /\ referenced' = referenced \cup {hand[2]}
    BY <1>1, <1>3, <2>1 DEF QueueInv, AtWork, AddReference
  <2>5. QED BY <2>1, <2>3, <2>4 DEF SettledInv, BeforeEnd
<1>4. QED BY <1>2, <1>3, ReferencedSteps

\* The preprocessor finds a similar track among those of the same origin.
LEMMA OriginStep ==
  ASSUME OriginInv, [PipeNext]_pipeVars
  PROVE  OriginInv'
<1>1. CASE reference' = reference
  BY <1>1 DEF OriginInv
<1>2. ASSUME NEW array \in Arrays, Decide(array)
      PROVE  OriginInv'
  <2>1. PICK found \in Findings(array) :
          reference' = [t \in Objects |->
                          IF ReferenceHandling = "reference" /\ t \in Elements(array)
                          THEN found[t] ELSE reference[t]]
    BY <1>2 DEF Decide
  <2>2. \A t \in Elements(array) : found[t] # Nil => Origin[found[t]] = Origin[t]
    BY DEF Findings, Similar
  <2>3. QED BY <2>1, <2>2 DEF OriginInv
<1>3. QED BY <1>1, <1>2, TracksStep DEF SetUpDuplicates, choiceVars

\* The end of two sequences in a row is the second of them.
LEMMA LastOfConcat ==
  ASSUME NEW s \in Seq(Objects), NEW t \in Seq(Objects)
  PROVE  \E first \in 1..(Len(s \o t) + 1) : t = SubSeq(s \o t, first, Len(s \o t))
<1>1. Len(s) \in Nat /\ Len(t) \in Nat /\ Len(s \o t) = Len(s) + Len(t)
  BY LenProperties, ConcatProperties
<1>2. Len(s) + 1 \in 1..(Len(s \o t) + 1)
  BY <1>1
<1>3. t = SubSeq(s \o t, Len(s) + 1, Len(s \o t))
  <2>1. CASE t = <<>>
    <3>1. Len(t) = 0
      BY <2>1
    <3>2. QED BY <1>1, <2>1, <3>1, SubSeqEmpty
  <2>2. CASE t # <<>>
    <3>1. Len(t) > 0
      BY <1>1, <2>2, EmptySeq
    <3>2. /\ Len(s) + 1 \in Len(s) + 1..Len(s) + Len(t)
          /\ Len(s) + Len(t) \in Len(s) + 1..Len(s) + Len(t)
      BY <1>1, <3>1
    <3>3. SubSeq(s \o t, Len(s) + 1, Len(s) + Len(t))
            = SubSeq(t, (Len(s) + 1) - Len(s), (Len(s) + Len(t)) - Len(s))
      BY <3>2, SubSeqOfConcat2
    <3>4. (Len(s) + 1) - Len(s) = 1 /\ (Len(s) + Len(t)) - Len(s) = Len(t)
      BY <1>1
    <3>5. QED BY <1>1, <3>3, <3>4, SubSeqFull
  <2>3. QED BY <2>1, <2>2
<1>4. QED BY <1>2, <1>3

\* What a step may do to the tracks that wait for the adder and to its own.
AheadMoves ==
  \/ \E array \in Arrays : AddFirst(array) /\ Ahead' = Ahead \o array /\ hand'[2] = hand[2]
  \/ /\ offered' = offered
     /\ \/ Ahead' = Ahead /\ hand'[2] = hand[2]
        \/ /\ hand[2] = Nil /\ Ahead # <<>>
           /\ hand'[2] = Head(Ahead) /\ Ahead' = Tail(Ahead)
        \/ hand[2] # Nil /\ hand'[2] = Nil /\ Ahead' = Ahead
        \/ /\ at[2] = "again" /\ hand[2] # Nil /\ hand'[2] = Nil
           /\ Ahead' = <<hand[2]>> \o Ahead
        \/ /\ hand'[2] = hand[2]
           /\ \E first \in 1..(Len(Ahead) + 1) : Ahead' = SubSeq(Ahead, first, Len(Ahead))

\* The tracks on their way follow those the adder has.
LEMMA AheadSteps ==
  ASSUME QueuesInv, QueueInv, PhasedStep
  PROVE  AheadMoves
<1>1. TypeOK /\ Held /\ QueuesMove
  <2>1. [CancelNext]_vars
    BY DEF PhasedStep, CancelNext
  <2>2. QED BY <2>1, QueuesStep DEF QueuesInv
<1>2. Behind(2) \in Seq(Objects) /\ batch \in Seq(Objects) /\ 2 \in Phases
  BY <1>1, BehindTypes, LineTypes DEF Phases
<1>3. ASSUME QueueStays(2), UNCHANGED <<batch, offered>>
      PROVE  AheadMoves
  BY <1>3 DEF QueueStays, Ahead, AheadMoves
<1>4. ASSUME NEW array \in Arrays, AddFirst(array), QueueStays(2)
      PROVE  AheadMoves
  <2>1. batch = <<>> /\ batch' = array
    BY <1>4 DEF AddFirst, QueueInv
  <2>2. Ahead = Behind(2)
    BY <1>2, <2>1, ConcatEmptySeq DEF Ahead
  <2>3. Ahead' = Ahead \o array /\ hand'[2] = hand[2]
    BY <1>4, <2>1, <2>2 DEF QueueStays, Ahead
  <2>4. QED BY <1>4, <2>3 DEF AheadMoves
<1>5. ASSUME AddSecond, QueuePuts(2, batch)
      PROVE  AheadMoves
  <2>1. batch' = <<>> /\ offered' = offered
    BY <1>5 DEF AddSecond
  <2>2. Behind(2) \o batch \in Seq(Objects)
    BY <1>2, ConcatProperties
  <2>3. Ahead' = (Behind(2) \o batch) \o <<>> /\ hand'[2] = hand[2]
    BY <1>5, <2>1 DEF QueuePuts, Ahead
  <2>4. Ahead' = Ahead
    BY <2>2, <2>3, ConcatEmptySeq DEF Ahead
  <2>5. QED BY <2>1, <2>3, <2>4 DEF AheadMoves
<1>6. ASSUME NEW p \in Phases, OwnMoves(p)
      PROVE  UNCHANGED <<batch, offered>>
  BY <1>6 DEF OwnMoves, Take, Finish, Retry, RemoveAll, adderVars
<1>7. ASSUME Take(2), QueueTakes(2)
      PROVE  AheadMoves
  <2>1. UNCHANGED <<batch, offered>>
    BY <1>7 DEF Take, adderVars
  <2>2. /\ hand[2] = Nil /\ Behind(2) # <<>> /\ hand'[2] = Head(Behind(2))
        /\ Behind(2)' = Tail(Behind(2))
    BY <1>7 DEF QueueTakes
  <2>3. /\ Tail(Behind(2) \o batch) = Tail(Behind(2)) \o batch
        /\ Head(Behind(2) \o batch) = Head(Behind(2))
        /\ Behind(2) \o batch # <<>>
    BY <1>2, <2>2, TailOfConcat
  <2>4. hand'[2] = Head(Ahead) /\ Ahead' = Tail(Ahead) /\ Ahead # <<>>
    BY <2>1, <2>2, <2>3 DEF Ahead
  <2>5. QED BY <2>1, <2>2, <2>4 DEF AheadMoves
<1>8. ASSUME Finish(2), QueueFinishes(2)
      PROVE  AheadMoves
  <2>1. UNCHANGED <<batch, offered>>
    BY <1>8 DEF Finish, adderVars
  <2>2. hand[2] # Nil /\ hand'[2] = Nil /\ Ahead' = Ahead
    BY <1>8, <2>1 DEF QueueFinishes, Ahead
  <2>3. QED BY <2>1, <2>2 DEF AheadMoves
<1>9. ASSUME Retry(2), QueueRetries(2)
      PROVE  AheadMoves
  <2>1. UNCHANGED <<batch, offered>> /\ at[2] = "again"
    BY <1>9 DEF Retry, adderVars
  <2>2. hand[2] # Nil /\ hand'[2] = Nil
    BY <1>9 DEF QueueRetries
  <2>3. CASE CancelledAtWork(2)
    <3>1. Ahead' = Ahead
      BY <1>9, <2>1, <2>3 DEF QueueRetries, Ahead
    <3>2. QED BY <2>1, <2>2, <3>1 DEF AheadMoves
  <2>4. CASE ~CancelledAtWork(2)
    <3>1. Ahead' = (<<hand[2]>> \o Behind(2)) \o batch
      BY <1>9, <2>1, <2>4 DEF QueueRetries, Ahead
    <3>2. <<hand[2]>> \in Seq(Objects)
      <4>1. hand[2] \in Objects
        BY <1>1, <1>2, <2>1 DEF Held, AtWork
      <4>2. QED BY <4>1
    <3>3. <<hand[2]>> \o (Behind(2) \o batch) = (<<hand[2]>> \o Behind(2)) \o batch
      BY <1>2, <3>2, Regroup
    <3>4. Ahead' = <<hand[2]>> \o Ahead
      BY <3>1, <3>3 DEF Ahead
    <3>5. QED BY <2>1, <2>2, <3>4 DEF AheadMoves
  <2>5. QED BY <2>3, <2>4
<1>10. ASSUME RemoveAll(2), QueueCancels(2)
       PROVE  AheadMoves
  <2>1. UNCHANGED <<batch, offered>> /\ Behind(2)' = <<>> /\ hand'[2] = hand[2]
    BY <1>10 DEF RemoveAll, adderVars, QueueCancels
  <2>2. Ahead' = <<>> \o batch
    BY <2>1 DEF Ahead
  <2>3. Ahead' = batch
    BY <1>2, <2>2, ConcatEmptySeq
  <2>4. PICK first \in 1..(Len(Behind(2) \o batch) + 1) :
          batch = SubSeq(Behind(2) \o batch, first, Len(Behind(2) \o batch))
    BY <1>2, LastOfConcat
  <2>5. first \in 1..(Len(Ahead) + 1) /\ Ahead' = SubSeq(Ahead, first, Len(Ahead))
    BY <2>3, <2>4 DEF Ahead
  <2>6. QED BY <2>1, <2>5 DEF AheadMoves
<1>11. OwnMoves(2) => AheadMoves
  BY <1>7, <1>8, <1>9, <1>10 DEF OwnMoves
<1>12. \A p \in Phases : p = 1 \/ p = 2
  BY DEF Phases
<1>13. QED BY <1>1, <1>3, <1>4, <1>5, <1>6, <1>11, <1>12 DEF QueuesMove, Other

\* A step that leaves files, songs and references alone.
LEMMA AheadMaps ==
  ASSUME PipelineInv, SettledInv, AheadMoves, UNCHANGED <<path, library, referenced>>
  PROVE  [C!Next]_(C!vars)
<1>1. ASSUME NEW array \in Arrays, AddFirst(array), Ahead' = Ahead \o array, hand'[2] = hand[2]
      PROVE  C!Next
  <2>1. /\ \A i, j \in DOMAIN array : array[i] = array[j] => i = j
        /\ \A i \in DOMAIN array : array[i] \notin offered
        /\ offered' = offered \cup {array[i] : i \in DOMAIN array}
    BY <1>1 DEF AddFirst, Distinct, Elements
  <2>2. C!Ask(array)
    BY <1>1, <2>1 DEF C!Ask
  <2>3. QED BY <2>2 DEF C!Next
<1>2. ASSUME offered' = offered, hand[2] = Nil, Ahead # <<>>, hand'[2] = Head(Ahead),
             Ahead' = Tail(Ahead)
      PROVE  C!Next
  BY <1>2 DEF C!Next, C!Begin
<1>3. ASSUME offered' = offered, hand[2] # Nil, hand'[2] = Nil, Ahead' = Ahead
      PROVE  C!Next
  BY <1>3 DEF C!Next, C!Leave
<1>4. ASSUME offered' = offered, at[2] = "again", hand[2] # Nil, hand'[2] = Nil,
             Ahead' = <<hand[2]>> \o Ahead
      PROVE  C!Next
  <2>1. ~C!Settled(hand[2])
    BY <1>4 DEF C!Settled, PipelineInv, SongsInv, SettledInv, BeforeEnd, AtWork
  <2>2. QED BY <1>4, <2>1 DEF C!Next, C!PutBack
<1>5. ASSUME offered' = offered, hand'[2] = hand[2],
             \E first \in 1..(Len(Ahead) + 1) : Ahead' = SubSeq(Ahead, first, Len(Ahead))
      PROVE  C!Next
  BY <1>5 DEF C!Next, C!Stop
<1>6. ASSUME offered' = offered, hand'[2] = hand[2], Ahead' = Ahead
      PROVE  UNCHANGED C!vars
  BY <1>6 DEF C!vars
<1>7. QED BY <1>1, <1>2, <1>3, <1>4, <1>5, <1>6 DEF AheadMoves

LEMMA CopyingStep ==
  ASSUME CopyingInv, [PipeNext]_pipeVars
  PROVE  [C!Next]_(C!vars)
<1>1. /\ PipeTypes /\ QueuesInv /\ FirstInv /\ FilesInv /\ SettledInv /\ OriginInv
      /\ PipelineInv /\ TypeOK /\ Held /\ QueueInv /\ SongsInv /\ PhasedStep
      /\ 2 \in Phases
  BY PipeStepsPhases DEF CopyingInv, PipeTypes, PipelineInv, Phases
<1>2. AheadMoves
  BY <1>1, AheadSteps
<1>3. ASSUME UNCHANGED <<hand, queueVars, adderVars>>
      PROVE  offered' = offered /\ Ahead' = Ahead /\ hand'[2] = hand[2]
  BY <1>3 DEF Ahead, Behind, queueVars, adderVars
<1>4. at[2] = "work" => hand[2] \in Objects /\ ~C!Settled(hand[2]) /\ library[hand[2]] = 0
  BY <1>1 DEF C!Settled, SongsInv, SettledInv, BeforeEnd, AtWork, Held
<1>5. C!Tracks = Objects
  BY PipelineAssumption DEF C!Tracks
<1>6. CASE AddSong
  <2>1. /\ at[2] = "work" /\ hand[2] \in path \cap Wanted
        /\ library' = [library EXCEPT ![hand[2]] = @ + 1]
        /\ UNCHANGED <<hand, queueVars, adderVars, path, referenced>>
    BY <1>6 DEF AddSong, Iterate, Duplicated
  <2>2. library' = [library EXCEPT ![hand[2]] = 1]
    <3>1. library[hand[2]] + 1 = 1
      BY <1>4, <2>1
    <3>2. QED BY <2>1, <3>1
  <2>3. C!AddSong
    BY <1>3, <1>4, <2>1, <2>2 DEF C!AddSong
  <2>4. QED BY <2>3 DEF C!Next
<1>7. CASE AddReference
  <2>1. /\ at[2] = "work" /\ hand[2] \in Wanted
        /\ reference[hand[2]] # Nil /\ library[reference[hand[2]]] > 0
        /\ referenced' = referenced \cup {hand[2]}
        /\ UNCHANGED <<hand, queueVars, adderVars, path, library>>
    BY <1>7 DEF AddReference, Iterate
  <2>2. /\ reference[hand[2]] \in Objects
        /\ Origin[reference[hand[2]]] = Origin[hand[2]]
    BY <1>1, <1>4, <2>1 DEF PipeTypes, TrackTypes, OriginInv
  <2>3. \E s \in C!Tracks : Origin[s] = Origin[hand[2]] /\ library[s] > 0
    BY <1>5, <2>1, <2>2
  <2>4. C!AddReference
    BY <1>3, <1>4, <2>1, <2>3 DEF C!AddReference
  <2>5. QED BY <2>4 DEF C!Next
<1>8. CASE /\ UNCHANGED <<hand, queueVars, adderVars>>
           /\ hand[1] \in offered \ path /\ path' = path \cup {hand[1]}
           /\ UNCHANGED <<library, referenced>>
  <2>1. hand[1] \in C!Tracks
    BY <1>1, <1>5, <1>8 DEF TypeOK
  <2>2. C!CopyFile(hand[1])
    BY <1>3, <1>8 DEF C!CopyFile
  <2>3. QED BY <2>1, <2>2 DEF C!Next
<1>9. CASE UNCHANGED <<path, library, referenced>>
  BY <1>1, <1>2, <1>9, AheadMaps
<1>10. QED
  BY <1>1, <1>6, <1>7, <1>8, <1>9, FileMade, LibraryStep, ReferencedSteps

\* What the user finds in the library: each song has its file, no track is there
\* both as a song and as a reference, and a reference has its song.
LibrarySound ==
  \A t \in Objects :
    /\ library[t] > 0 => t \in (path \cap Wanted) \ referenced
    /\ t \in referenced => \E s \in Objects : Origin[s] = Origin[t] /\ library[s] > 0

LEMMA SoundStep ==
  ASSUME LibrarySound, library \in [Objects -> Nat], [C!Next]_(C!vars)
  PROVE  LibrarySound'
<1> USE DEF LibrarySound
<1>0. C!Tracks = Objects
  BY PipelineAssumption DEF C!Tracks
<1>1. CASE C!AddSong
  <2>1. /\ hand[2] \in path \cap Wanted /\ ~C!Settled(hand[2])
        /\ library' = [library EXCEPT ![hand[2]] = 1]
        /\ UNCHANGED <<path, referenced>>
    BY <1>1 DEF C!AddSong
  <2>2. \A s \in Objects : library[s] > 0 => library'[s] > 0
    BY <2>1
  <2>3. QED BY <2>1, <2>2 DEF C!Settled
<1>2. CASE C!AddReference
  BY <1>0, <1>2 DEF C!AddReference, C!Settled
<1>3. CASE \E t \in C!Tracks : C!CopyFile(t)
  BY <1>3 DEF C!CopyFile
<1>4. CASE UNCHANGED <<path, library, referenced>>
  BY <1>4
<1>5. QED
  BY <1>1, <1>2, <1>3, <1>4
     DEF C!Next, C!Ask, C!Begin, C!Leave, C!PutBack, C!Stop, C!vars

LEMMA CopyingInit == PipeInit => CopyingInv /\ C!Init
<1> SUFFICES ASSUME PipeInit PROVE CopyingInv /\ C!Init
  OBVIOUS
<1>1. PipeTypes /\ QueuesInv
  BY PipeTypesInit, QueuesInit DEF PipeInit
<1>2. /\ \A p \in Phases : Behind(p) = <<>> /\ hand[p] = Nil
      /\ at[1] = "top" /\ at[2] = "top" /\ batch = <<>> /\ offered = {}
      /\ path = {} /\ referenced = {}
      /\ library = [t \in Objects |-> 0] /\ reference = [t \in Objects |-> Nil]
  BY DEF PipeInit, Init, Behind, Phases
<1>3. Behind(1) = <<>> /\ Ahead = <<>> /\ hand[1] = Nil /\ hand[2] = Nil
  BY <1>2 DEF Ahead, Phases
<1>4. Elements(Behind(1)) = {} /\ Distinct(Behind(1))
  BY <1>3 DEF Elements, Distinct
<1>5. FirstInv /\ FilesInv
  BY <1>2, <1>3, <1>4 DEF FirstInv, FilesInv
<1>6. SettledInv /\ OriginInv
  BY <1>2 DEF SettledInv, OriginInv
<1>7. C!Init
  BY <1>2, <1>3, PipelineAssumption DEF C!Init, C!Tracks
<1>8. QED BY <1>1, <1>5, <1>6, <1>7 DEF CopyingInv

LEMMA CopyingInvStep == CopyingInv /\ [PipeNext]_pipeVars => CopyingInv'
<1> SUFFICES ASSUME CopyingInv, [PipeNext]_pipeVars PROVE CopyingInv'
  OBVIOUS
<1>1. PipeTypes /\ QueuesInv /\ FirstInv /\ FilesInv /\ SettledInv /\ OriginInv /\ PipelineInv
  BY DEF CopyingInv, PipeTypes
<1>2. PipeTypes'
  BY <1>1, PipeTypesStep
<1>3. QueuesInv'
  <2>1. [CancelNext]_vars
    BY PipeStepsPhases DEF PhasedStep, CancelNext
  <2>2. QED BY <1>1, <2>1, QueuesStep
<1>4. FirstInv' /\ FilesInv'
  BY <1>1, FilesStep
<1>5. SettledInv' /\ OriginInv'
  BY <1>1, SettledStep, OriginStep
<1>6. QED BY <1>2, <1>3, <1>4, <1>5 DEF CopyingInv

\* The whole of the copying is what the user asks for, whatever is cancelled, fails,
\* times out or is skipped: tracks are added in the order asked for and at most once,
\* a song only once its file is there, a reference only to a song of the same origin
\* that is in the library (SEThreadedTrackAdder.m:122-266).
THEOREM CopyingRefines == PipeSpec => RefinesCopying
  BY CopyingInit, CopyingStep, CopyingInvStep, PTL DEF PipeSpec, RefinesCopying, C!Spec

\* Whatever is cancelled, fails or times out, at any time: a song in the library
\* has its file, and a reference in it a song of the same origin; no track is added
\* both ways (SEThreadedTrackAdder.m:184-266).
THEOREM LibraryStaysSound == PipeSpec => []LibrarySound
<1>1. PipeInit => LibrarySound
  BY DEF PipeInit, LibrarySound
<1>2. CopyingInv /\ LibrarySound /\ [PipeNext]_pipeVars => LibrarySound'
  <2> SUFFICES ASSUME CopyingInv, LibrarySound, [PipeNext]_pipeVars PROVE LibrarySound'
    OBVIOUS
  <2>1. library \in [Objects -> Nat]
    BY DEF CopyingInv, PipeTypes, PipelineInv, SongsInv
  <2>2. QED BY <2>1, CopyingStep, SoundStep
<1>3. QED
  BY <1>1, <1>2, CopyingInit, CopyingInvStep, PTL DEF PipeSpec
=============================================================================
