---------------------------- MODULE CopyPipeline -----------------------------
(***************************************************************************)
(* The copying of tracks: the copier and the adder, which are the two      *)
(* phases of PhasedConsumer, the preprocessor that adds tracks to them,    *)
(* and SECopyController, which on the main thread pauses and cancels both  *)
(* and asks the user when the copier or the adder fails.                   *)
(*                                                                         *)
(* A worker that fails performs cancelCopying: on the main thread and      *)
(* waits for it, and so does the copier with chooseDuplicateStyle: when a  *)
(* file is where its own should go.  An alert runs the main thread's run   *)
(* loop, so that the other worker's can be shown on top of it.             *)
(***************************************************************************)
EXTENDS PhasedConsumer

CONSTANTS
  Origin,             \* the track on the iPod that each track is a copy of
  ReferenceHandling,  \* the preference: "reference", "copy" or "skip"
  MayCancel,          \* bound: does the user ever stop the copying?
  Faults              \* what may happen: a file is there already and is skipped
                      \* or asked about, copying fails, iTunes times out, fails
                      \* or is not heard

ASSUME PipelineAssumption ==
  /\ DOMAIN Origin = Objects
  /\ ReferenceHandling \in {"reference", "copy", "skip"}
  /\ MayCancel \in BOOLEAN
  /\ Faults \subseteq {"skip", "ask", "copy", "timeout", "script", "nil"}

VARIABLES
  state, continueSemaphore, waiting,  \* per phase: its SELooper
  alerts,        \* the alerts on the screen, the topmost first: who asked
  asking,        \* per phase: its call on the main thread
  stopping,      \* is the topmost cancelCopying: inside [self cancel]?
  chosen,        \* the array the preprocessor has decided on, not yet added
  rooted,        \* the tracks with a destinationRoot
  reference,     \* per track: the track to make a reference to, or Nil
  path,          \* the tracks with a destinationPath, where the file is
  duplicates,    \* the tracks whose duplicate is in the origin's duplicateTracks
  registered,    \* the adder's duplicatedTracks
  removing,      \* those that willCancel has taken from them, or Nil
  library,       \* per track: how often iTunes has answered that it is added
  referenced,    \* the tracks added as a reference
  unheard,       \* history: the tracks taken as added without an answer
  dead           \* has an exception ended the adder's thread?

looperVars == <<state, continueSemaphore, waiting>>
mainVars == <<alerts, asking, stopping>>
choiceVars == <<chosen, rooted, reference>>
duplicateVars == <<duplicates, registered, removing>>
addedVars == <<library, referenced, unheard>>
trackVars == <<choiceVars, path, duplicateVars, addedVars>>
pipeVars == <<vars, looperVars, mainVars, trackVars, dead>>

\* What an alert is shown for: cancelCopying:, called by a phase or by the user,
\* or chooseDuplicateStyle:, called by the copier.
User == 0
Style == 3
Senders == Phases \cup {User, Style}

PipeTypeOK ==
  /\ TypeOK
  /\ state \in [Phases -> {"Running", "Pause"}]
  /\ continueSemaphore \in [Phases -> 0..1]
  /\ waiting \in [Phases -> BOOLEAN]
  /\ alerts \in Seq(Senders)
  /\ asking \in [Phases -> {"no", "posted", "shown", "answered",
                           "choose", "choosing", "chosen"}]
  /\ stopping \in BOOLEAN
  /\ chosen \in Seq(Objects)
  /\ rooted \subseteq Objects
  /\ reference \in [Objects -> Objects \cup {Nil}]
  /\ path \subseteq Objects
  /\ duplicates \subseteq Objects
  /\ registered \subseteq Objects
  /\ removing \in (SUBSET Objects) \cup {Nil}
  /\ library \in [Objects -> Nat]
  /\ referenced \subseteq Objects
  /\ unheard \subseteq Objects
  /\ dead \in BOOLEAN

PipeInit ==
  /\ Init
  /\ state = [p \in Phases |-> "Running"]
  /\ continueSemaphore = [p \in Phases |-> 0]
  /\ waiting = [p \in Phases |-> FALSE]
  /\ alerts = <<>>
  /\ asking = [p \in Phases |-> "no"]
  /\ stopping = FALSE
  /\ chosen = <<>>
  /\ rooted = {}
  /\ reference = [t \in Objects |-> Nil]
  /\ path = {}
  /\ duplicates = {}
  /\ registered = {}
  /\ removing = Nil
  /\ library = [t \in Objects |-> 0]
  /\ referenced = {}
  /\ unheard = {}
  /\ dead = FALSE

-----------------------------------------------------------------------------
(* The preprocessor.                                                       *)

\* The similar and duplicate tracks of the origin in the library that the
\* track goes to.
Similar(t) ==
  {s \in Objects : t \in Wanted /\ Origin[s] = Origin[t]
                   /\ (s \in duplicates \/ library[s] > 0)}

\* Which similar track is found, if any has a file, is up to the search.
Findings(array) ==
  {f \in [Elements(array) -> Objects \cup {Nil}] :
     \A t \in Elements(array) :
       f[t] # Nil => ReferenceHandling # "copy" /\ f[t] \in Similar(t)}

\* For each track, whether to copy the file and whether to make a reference.  An
\* array decided on before has not been added if an alert about the folder or the
\* space has ended that; its tracks are as good as new.
Decide(array) ==
  /\ adding = "none"
  /\ Distinct(array)
  /\ Elements(array) \cap offered = {}
  /\ \E found \in Findings(array) :
       /\ rooted' = (rooted \ Elements(array)) \cup {t \in Elements(array) : found[t] = Nil}
       /\ reference' = [t \in Objects |->
                          IF ReferenceHandling = "reference" /\ t \in Elements(array)
                          THEN found[t] ELSE reference[t]]
  /\ chosen' = array
  /\ UNCHANGED <<vars, looperVars, mainVars, path, duplicateVars, addedVars, dead>>

\* The tracks are added to the copier as they were decided on.
AddToCopier(array) ==
  /\ chosen = array
  /\ AddFirst(array)
  /\ chosen' = <<>>
  /\ UNCHANGED <<looperVars, mainVars, rooted, reference, path, duplicateVars,
                 addedVars, dead>>

Duplicated(t) == t \in Wanted /\ reference[t] = Nil

\* setupObject: of the adder.
SetUpDuplicates ==
  /\ SetUpSecond
  /\ LET new == {t \in Elements(batch) : Duplicated(t)}
     IN /\ duplicates' = duplicates \cup new
        /\ registered' = registered \cup new
  /\ UNCHANGED <<looperVars, mainVars, choiceVars, path, removing, addedVars, dead>>

AddToAdder ==
  /\ AddSecond
  /\ UNCHANGED <<looperVars, mainVars, trackVars, dead>>

-----------------------------------------------------------------------------
(* The workers.                                                            *)

Idle(p) == asking[p] = "no" /\ ~(p = 2 /\ dead)

\* What the subclasses do not change in SEConsumer and SEPhasedConsumer.
Inherited(p) ==
  /\ \/ Take(p) \/ Reset(p) \/ WakeUp(p) \/ Finish(p) \/ Retry(p)
     \/ p = 1 /\ WillSleep(p)
     \/ p = 2 /\ Waiting
  /\ UNCHANGED <<looperVars, mainVars, trackVars, dead>>

\* consumerWillSleep of the adder forgets the duplicates.
ForgetDuplicates ==
  /\ WillSleep(2)
  /\ registered' = {}
  /\ UNCHANGED <<looperVars, mainVars, choiceVars, path, duplicates, removing,
                 addedVars, dead>>

\* The pause of SELooper between two iterations.
NoticePause(p) ==
  /\ at[p] = "between"
  /\ state[p] = "Pause"
  /\ waiting' = [waiting EXCEPT ![p] = TRUE]
  /\ UNCHANGED <<vars, state, continueSemaphore, mainVars, trackVars, dead>>

GoOn(p) ==
  /\ NextIteration(p)
  /\ \/ /\ ~waiting[p]
        /\ state[p] # "Pause"
        /\ UNCHANGED <<waiting, continueSemaphore>>
     \/ /\ waiting[p]
        /\ continueSemaphore[p] = 1
        /\ continueSemaphore' = [continueSemaphore EXCEPT ![p] = 0]
        /\ waiting' = [waiting EXCEPT ![p] = FALSE]
  /\ UNCHANGED <<state, mainVars, trackVars, dead>>

\* performSelectorOnMainThread:cancelCopying: waitUntilDone:YES
Ask(p) ==
  /\ at[p] = "work"
  /\ Idle(p) \/ asking[p] = "chosen"
  /\ asking' = [asking EXCEPT ![p] = "posted"]
  /\ UNCHANGED <<vars, looperVars, alerts, stopping, trackVars, dead>>

-----------------------------------------------------------------------------
(* The copier: shouldProcessObject: and processObject:.                    *)

\* A file is where this one should go, and the user is to choose what to do.
AskStyle ==
  /\ "ask" \in Faults
  /\ at[1] = "work"
  /\ Idle(1)
  /\ hand[1] \in rooted
  /\ asking' = [asking EXCEPT ![1] = "choose"]
  /\ UNCHANGED <<vars, looperVars, alerts, stopping, trackVars, dead>>

\* The file is copied, under its own name, another or over an existing one;
\* or it is skipped because there is one already.
Copy(skip) ==
  /\ asking[1] \in {"no", "chosen"}
  /\ skip => "skip" \in Faults \/ asking[1] = "chosen"
  /\ Iterate(1, TRUE)
  /\ path' = IF hand[1] \in rooted /\ ~skip THEN path \cup {hand[1]} ELSE path
  /\ asking' = [asking EXCEPT ![1] = "no"]
  /\ UNCHANGED <<looperVars, alerts, stopping, choiceVars, duplicateVars, addedVars, dead>>

CopyFails ==
  /\ "copy" \in Faults
  /\ hand[1] \in rooted
  /\ Ask(1)

\* copyFailedAt: after the user has answered.
GiveUpCopy ==
  /\ asking[1] = "answered"
  /\ Iterate(1, TRUE)
  /\ rooted' = rooted \ {hand[1]}
  /\ path' = path \ {hand[1]}
  /\ asking' = [asking EXCEPT ![1] = "no"]
  /\ UNCHANGED <<looperVars, alerts, stopping, chosen, reference, duplicateVars,
                 addedVars, dead>>

-----------------------------------------------------------------------------
(* The adder: shouldProcessObject:, processObject: and _processObject:.    *)

\* A track that is not added anywhere, or one whose file is not there.
Vain(t) == t \notin Wanted \/ (Duplicated(t) /\ t \notin path)

\* Mutant: the duplicate stays.
AddNothingKeeps ==
  /\ Idle(2)
  /\ Vain(hand[2])
  /\ Iterate(2, TRUE)
  /\ UNCHANGED <<looperVars, mainVars, trackVars, dead>>

\* Nothing to add: the duplicate never becomes a real track.
AddNothing ==
  /\ Idle(2)
  /\ Vain(hand[2])
  /\ Iterate(2, TRUE)
  /\ duplicates' = duplicates \ {hand[2]}
  /\ UNCHANGED <<looperVars, mainVars, choiceVars, path, registered, removing,
                 addedVars, dead>>

\* Mutant: a song that has been added is not complete.
AddSongAgain ==
  /\ Idle(2)
  /\ Duplicated(hand[2])
  /\ hand[2] \in path
  /\ Iterate(2, FALSE)
  /\ library' = [library EXCEPT ![hand[2]] = @ + 1]
  /\ duplicates' = duplicates \ {hand[2]}
  /\ UNCHANGED <<looperVars, mainVars, choiceVars, path, registered, removing,
                 referenced, unheard, dead>>

\* add_song: the duplicate becomes a real track.
AddSong ==
  /\ Idle(2)
  /\ Duplicated(hand[2])
  /\ hand[2] \in path
  /\ Iterate(2, TRUE)
  /\ library' = [library EXCEPT ![hand[2]] = @ + 1]
  /\ duplicates' = duplicates \ {hand[2]}
  /\ UNCHANGED <<looperVars, mainVars, choiceVars, path, registered, removing,
                 referenced, unheard, dead>>

\* Mutant: a reference is made although the track has no persistent ID.
AddReferenceBlind ==
  /\ Idle(2)
  /\ hand[2] \in Wanted
  /\ reference[hand[2]] # Nil
  /\ Iterate(2, TRUE)
  /\ referenced' = referenced \cup {hand[2]}
  /\ UNCHANGED <<looperVars, mainVars, choiceVars, path, duplicateVars, library,
                 unheard, dead>>

\* add_reference, of a track that has its persistent ID.
AddReference ==
  /\ Idle(2)
  /\ hand[2] \in Wanted
  /\ reference[hand[2]] # Nil
  /\ library[reference[hand[2]]] > 0
  /\ Iterate(2, TRUE)
  /\ referenced' = referenced \cup {hand[2]}
  /\ UNCHANGED <<looperVars, mainVars, choiceVars, path, duplicateVars, library,
                 unheard, dead>>

\* Is a script run for the track at hand?
Scripted ==
  hand[2] \in Wanted /\ (reference[hand[2]] # Nil \/ hand[2] \in path)

\* Neither a result nor an error, as from a client that has no connection by now:
\* that passes for the track being added, and its duplicate stays what it is.
AddUnheard ==
  /\ "nil" \in Faults
  /\ Idle(2)
  /\ Scripted
  /\ Iterate(2, TRUE)
  /\ unheard' = unheard \cup {hand[2]}
  /\ UNCHANGED <<looperVars, mainVars, choiceVars, path, duplicateVars, library,
                 referenced, dead>>

\* Error -1712: ask, and when the user has answered leave the track incomplete.
AddTimesOut ==
  /\ "timeout" \in Faults
  /\ Scripted
  /\ Ask(2)

TryAgain ==
  /\ asking[2] = "answered"
  /\ Iterate(2, FALSE)
  /\ asking' = [asking EXCEPT ![2] = "no"]
  /\ UNCHANGED <<looperVars, alerts, stopping, trackVars, dead>>

\* Any other error in each of four runs raises an exception, which nobody
\* catches.  A reference without a persistent ID is such an error: the nil
\* cuts the array of arguments short.
AddRaises ==
  /\ at[2] = "work"
  /\ Idle(2)
  /\ Scripted
  /\ "script" \in Faults \/ (reference[hand[2]] # Nil /\ library[reference[hand[2]]] = 0)
  /\ dead' = TRUE
  /\ UNCHANGED <<vars, looperVars, mainVars, trackVars>>

-----------------------------------------------------------------------------
(* SECopyController on the main thread: cancelCopying:, pause, continue    *)
(* and cancel, and chooseDuplicateStyle:, which does none of these.        *)

MainFree == todo = <<>> /\ ~stopping

\* Mutant: only the copier is paused and continued.
ContinueCopier ==
  /\ state' = [state EXCEPT ![1] = "Running"]
  /\ continueSemaphore' = [continueSemaphore EXCEPT ![1] = IF state[1] = "Pause" THEN 1 ELSE @]

\* -continue: of the copier and the adder, as in Looper.
ContinueBoth ==
  /\ state' = [p \in Phases |-> "Running"]
  /\ continueSemaphore' = [p \in Phases |-> IF state[p] = "Pause" THEN 1
                                            ELSE continueSemaphore[p]]

\* -pause, then the alert.
Show(sender) ==
  /\ MainFree
  /\ state' = [p \in Phases |-> "Pause"]
  /\ alerts' = <<sender>> \o alerts
  /\ UNCHANGED <<vars, continueSemaphore, waiting, stopping, trackVars, dead>>

\* The user wants to stop; an alert is modal, so there is none.
ShowUser ==
  /\ MayCancel
  /\ alerts = <<>>
  /\ Show(User)
  /\ UNCHANGED asking

ShowFailure(p) ==
  /\ asking[p] = "posted"
  /\ Show(p)
  /\ asking' = [asking EXCEPT ![p] = "shown"]

ShowStyle ==
  /\ MainFree
  /\ asking[1] = "choose"
  /\ alerts' = <<Style>> \o alerts
  /\ asking' = [asking EXCEPT ![1] = "choosing"]
  /\ UNCHANGED <<vars, looperVars, stopping, trackVars, dead>>

\* Mutant: whoever asked gets an answer, whichever alert is closed.
ReturnToAll ==
  /\ ContinueBoth
  /\ alerts' = Tail(alerts)
  /\ asking' = [p \in Phases |-> IF asking[p] = "shown" THEN "answered" ELSE asking[p]]
  /\ UNCHANGED <<waiting, trackVars, dead>>

\* Mutant: the adder gets no answer.
ReturnToCopier ==
  /\ ContinueBoth
  /\ alerts' = Tail(alerts)
  /\ asking' = [p \in Phases |-> IF Head(alerts) = p /\ p = 1 THEN "answered" ELSE asking[p]]
  /\ UNCHANGED <<waiting, trackVars, dead>>

\* The end of cancelCopying:.
Return ==
  /\ ContinueBoth
  /\ alerts' = Tail(alerts)
  /\ asking' = [p \in Phases |-> IF Head(alerts) = p THEN "answered" ELSE asking[p]]
  /\ UNCHANGED <<waiting, trackVars, dead>>

AnswerContinue ==
  /\ MainFree
  /\ alerts # <<>>
  /\ Head(alerts) # Style
  /\ Return
  /\ UNCHANGED <<vars, stopping>>

\* The user has chosen; what, the copier makes of it in Copy.
AnswerStyle ==
  /\ MainFree
  /\ alerts # <<>>
  /\ Head(alerts) = Style
  /\ alerts' = Tail(alerts)
  /\ asking' = [asking EXCEPT ![1] = "chosen"]
  /\ UNCHANGED <<vars, looperVars, stopping, trackVars, dead>>

AnswerCancel ==
  /\ MayCancel
  /\ ~stopping
  /\ alerts # <<>>
  /\ Head(alerts) # Style
  /\ BeginCancel
  /\ stopping' = TRUE
  /\ UNCHANGED <<looperVars, alerts, asking, trackVars, dead>>

\* willCancel of the adder takes the duplicates of tracks not processed, ...
TakeDuplicates ==
  /\ todo # <<>>
  /\ Head(todo) = "willCancel"
  /\ removing = Nil
  /\ removing' = registered
  /\ registered' = {}
  /\ UNCHANGED <<vars, looperVars, mainVars, choiceVars, path, duplicates, addedVars, dead>>

\* ... and removes them, no longer under its lock.
RemoveDuplicates ==
  /\ removing # Nil
  /\ WillCancel
  /\ duplicates' = duplicates \ removing
  /\ removing' = Nil
  /\ UNCHANGED <<looperVars, mainVars, choiceVars, path, registered, addedVars, dead>>

CancelRest ==
  /\ RemoveAll(1) \/ RemoveAll(2) \/ DeleteSemaphore \/ CreateSemaphore
  /\ UNCHANGED <<looperVars, mainVars, trackVars, dead>>

\* Mutant: the cancel waits for the worker that is cancelled.
AnsweredCancelWaits ==
  /\ stopping
  /\ todo = <<>>
  /\ \A p \in Phases : at[p] # "work"
  /\ Return
  /\ stopping' = FALSE
  /\ UNCHANGED vars

AnsweredCancel ==
  /\ stopping
  /\ todo = <<>>
  /\ Return
  /\ stopping' = FALSE
  /\ UNCHANGED vars

-----------------------------------------------------------------------------
Preprocessor ==
  \/ \E array \in Arrays : Decide(array) \/ AddToCopier(array)
  \/ SetUpDuplicates \/ AddToAdder

CopierWork == AskStyle \/ (\E skip \in BOOLEAN : Copy(skip)) \/ CopyFails \/ GiveUpCopy

AdderWork ==
  \/ AddNothing \/ AddSong \/ AddReference \/ AddUnheard
  \/ AddTimesOut \/ TryAgain \/ AddRaises

PipeWorker(p) ==
  \/ Inherited(p) \/ NoticePause(p) \/ GoOn(p)
  \/ p = 1 /\ CopierWork
  \/ p = 2 /\ (ForgetDuplicates \/ AdderWork)

Answer == AnswerContinue \/ AnswerStyle \/ AnswerCancel

ShowAsked(p) == ShowFailure(p) \/ (p = 1 /\ ShowStyle)

Main ==
  \/ \E p \in Phases : ShowAsked(p)
  \/ TakeDuplicates \/ RemoveDuplicates \/ CancelRest \/ AnsweredCancel

PipeNext ==
  \/ Preprocessor
  \/ \E p \in Phases : PipeWorker(p)
  \/ Main \/ Answer \/ ShowUser

PipeSpec == PipeInit /\ [][PipeNext]_pipeVars

\* The threads are scheduled, the user answers an alert, every turn of the run
\* loop serves what was posted to the main thread, even while the user goes on
\* stopping, and iTunes does not time out on a track for ever.
PipeFairness ==
  /\ WF_pipeVars(SetUpDuplicates \/ AddToAdder)
  /\ \A p \in Phases : WF_pipeVars(PipeWorker(p))
  /\ \A p \in Phases : SF_pipeVars(ShowAsked(p))
  /\ WF_pipeVars(TakeDuplicates \/ RemoveDuplicates \/ CancelRest \/ AnsweredCancel)
  /\ WF_pipeVars(Answer)
  /\ SF_pipeVars(AddSong \/ AddReference \/ AddRaises)

PipeFairSpec == PipeSpec /\ PipeFairness

-----------------------------------------------------------------------------
(* Safety.                                                                 *)

\* Nothing to do, nothing under way, nobody asked.
Quiet ==
  /\ adding = "none" /\ todo = <<>> /\ alerts = <<>> /\ ~dead
  /\ \A p \in Phases : at[p] = "asleep" /\ objects[p] = <<>>

\* A song that iTunes has answered for is not added again, however often the
\* adder tries and whatever is cancelled meanwhile.  (A song added without an
\* answer is tried again: iTunes may then hold it twice, which is not counted.)
AddedOnce == \A t \in Objects : library[t] <= 1

\* Every track the adder is through with whose file is there is in the library,
\* unless iTunes was not heard: the adder has not looked for the file before the
\* copier had made it.
CopiedIsAdded ==
  \A t \in done[2] \cap path \cap Wanted :
    reference[t] = Nil => library[t] > 0 \/ t \in unheard

\* A reference to a track whose file has been copied is made only after that
\* track is in the library, although the preprocessor chose it while it was
\* still to be copied; again, unless iTunes was not heard.
ReferenceIsReal ==
  at[2] = "work" /\ hand[2] \in Wanted /\ reference[hand[2]] \in path
  => library[reference[hand[2]]] > 0 \/ reference[hand[2]] \in unheard

\* When all is quiet and nobody has cancelled, the duplicates left are those of
\* tracks that were taken as added without an answer (SEThreadedTrackAdder.m:264).
GhostsUnheard == Quiet => duplicates \subseteq unheard

\* "remove any unprocessed duplicated tracks from their origin since they won't
\* ever become real tracks" (SEThreadedTrackAdder.m:74-76): when all is quiet,
\* no duplicate is left that has not become a track.
NoGhosts == Quiet => duplicates = {}

\* "always continue since it got paused to start" (SECopyController.m:151):
\* once no alert of cancelCopying: is shown, neither phase stays paused, however
\* alerts nest.
PausesEnd ==
  (\A i \in DOMAIN alerts : alerts[i] = Style) => \A p \in Phases : state[p] = "Running"

\* Where an alert is shown for a sender.
AlertsOf(sender) == {i \in DOMAIN alerts : alerts[i] = sender}

\* One alert is on the screen, or none.
ShownOnce(sender, shown) ==
  IF shown THEN \E i \in DOMAIN alerts : AlertsOf(sender) = {i} ELSE AlertsOf(sender) = {}

\* A worker that waits for the user has exactly one alert on the screen once the
\* main thread has heard of it, and none before; no alert is left over from a
\* worker that goes on.  The user's own alert is never on top of another.
AskedStands ==
  /\ \A p \in Phases :
       /\ asking[p] # "no" => at[p] = "work"
       /\ ShownOnce(p, asking[p] = "shown")
  /\ ShownOnce(Style, asking[1] = "choosing")
  /\ AlertsOf(User) \subseteq {Len(alerts)}

\* The tracks that wait for the adder, on their way to it or in its arrays.
Ahead == Behind(2) \o batch

C == INSTANCE TrackCopying WITH
       Batches <- Arrays,
       asked <- offered,
       line <- Ahead,
       turn <- hand[2],
       files <- path,
       songs <- library,
       references <- referenced

\* All this is the copying that the user asks for, whatever is cancelled, fails,
\* times out or is skipped meanwhile: tracks are added in order and at most once,
\* a song only with its file, a reference only to a song of the same origin that
\* is in the library (SEThreadedTrackAdder.m:122-266).
RefinesCopying == C!Spec

(* Liveness.                                                               *)

\* A worker that has asked the user goes on some time.
AskAnswered == \A p \in Phases : asking[p] # "no" ~> asking[p] = "no"

\* Time and again all the tracks handed over are through the copier, and as many
\* through the adder as should be added: all of them when all should be.  The copier
\* does not signal for a track that should not, so that the adder waits for as many
\* of the last ones for ever (SEPhasedConsumer.m:81-88).  All this unless an
\* exception ends the adder.
EveryTrackDone ==
  []<>(/\ offered \subseteq done[1]
       /\ Cardinality(done[2]) >= Cardinality(offered \cap Wanted) \/ dead)
=============================================================================
