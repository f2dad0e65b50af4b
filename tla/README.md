# Senuti in TLA+

Senuti is a Mac OS X program that copies tracks from an iPod to the computer and
adds them to iTunes. Its interface is an ordinary Cocoa program. What is hard
in it is a small concurrent core: worker threads that are paused, cancelled and
fed by other threads, two of them in a row for each track that is copied, and
threads that read libraries from volumes that come and go, scripts that a helper
process runs, and a timer that has to keep up with a movie. This directory models
that core, checks it with TLC and proves the parts of it that carry the rest.

Paths are relative to the root of the repository; `Source/` holds the program,
`external/framework/Source/` its own framework and `libxpod/Source/` the
libraries on iPods and mobile devices.

1. [The system](#the-system)
2. [The modules](#the-modules)
3. [The runs](#the-runs)
4. [Fairness](#fairness)
5. [What is proved](#what-is-proved)
6. [Where the code and its comments part](#where-the-code-and-its-comments-part)
7. [What is not modelled](#what-is-not-modelled)
8. [Plan](#plan)

## The system

### Threads and how they meet

| thread | made by | runs |
| --- | --- | --- |
| main | the program | the interface, `SECopyController`, `SELibraryController`, all notifications, and what other threads hand it with `performSelectorOnMainThread:` |
| preprocessor, copier, adder | `[SELooper execute]`, once each | `runWorker`, for the life of the program |
| fetcher | `SELibraryFetcher`, one at the launch for iPods, one for iTunes, more for later mounts | `fetchLibraries`, until it has nothing left to look at |
| helper process | `FSAppleScriptClient`, when a script is to be run and none is there | `FSAppleScriptServer`, until it has been idle for ten minutes |
| cross referencer | `SELibraryCrossReferencer`, one for each new library | `crossLibraries`, once |

The threads meet in Carbon semaphores (binary `continueSemaphore` and
`processSemaphore`, a counting one between two phases), a critical region
(`criticalID`), `@synchronized` blocks, ivars read with no lock, and posts to the
main thread, with and without waiting for it.

### Components

**SELooper** (`Source/SELooper.m`). *State:* `state`, written by callers in a
critical region and read by the worker outside it; the binary
`continueSemaphore`. *Operations:* `execute`, `pause`, `continue`, `abort`, the
loop `runWorker`. *Hard:* the test of `state` and the wait that follows are two
steps; the signal is sent after the region has been left; nobody takes back a
signal that was not needed. *Right if* a continue or an abort is never lost, and a
pause holds the worker after a bounded number of iterations.

**SEConsumer** (`Source/SEConsumer.m`), a looper. *State:* `objects` (what clients
append), `activeObjects` and an index (what the worker goes through), the binary
`processSemaphore`, the counts and `isWorking`. *Operations:* `addObjects:`,
`cancel`, `abort`, and `iteration`, which runs `activeObject` and
`iterateOverObject:`. *Hard:* every lock is released between two decisions, a
wake-up is sent only for an array that was empty, cancel empties the arrays under
a worker that has already counted them. *Right if* no wake-up is lost, the index
stays in range, and each object is worked off once, in order, or cancelled.

**SEPhasedConsumer** (`Source/SEPhasedConsumer.m`), a consumer with a previous
and a next phase. *State:* in addition a counting semaphore. *Operations:* those of
the consumer, passed on to the next phase. *Hard:* the semaphore is deleted and
made anew by a cancel while workers wait on it and signal it; objects reach the
phases one after the other. *Right if* a phase works on an object only after the
previous one has, and each object gets through.

**Copying a track** (`Source/SEThreadedTrackPreprocessor.m`,
`SEThreadedTrackCopier.m`, `SEThreadedTrackAdder.m`). *State:* per track
`destinationRoot`, `destinationPath`, `reference`; its duplicate in
`duplicateTracks` of the original; the adder's `duplicatedTracks`. *Operations:*
decide between copy, reference and nothing; copy; add to iTunes with a script or
add a reference; take back the duplicates on a cancel. *Hard:* what is decided early
rests on what is done later; copies fail and scripts time out, and each asks the
user on the main thread and waits for the answer; a script may bring neither a result
nor an error. *Right if* what is copied is added once, references are to tracks that
exist, and no duplicate outlives a track that never came to be.

**SECopyController** (`Source/SECopyController.m`). *State:* `copying` and sums of
the counts. *Operations:* copy, pause, continue, cancel, `cancelCopying:` and
`chooseDuplicateStyle:` (alerts that run the run loop, so that they nest), `consumerDidStart:` and
`consumerDidFinish:`. *Right if* no phase stays paused after the last alert, a
worker that asks gets its answer, and `copying` says what is so.

**SELibraryController** (`Source/SELibraryController.m`), with
`SELibraryFetcher` and `SELibraryCrossReferencer`. *State:* the current fetchers,
the libraries shown, `hasIPods`; per fetcher `objects` and `canAddObjects` under a
lock. *Operations:* mount, unmount, eject, and what fetchers post. *Hard:* a fetcher
closes while a volume is mounted; its posts arrive after it has been
replaced; notifications and posts are not ordered with each other; a volume mounted
during the launch is both listed and announced. *Right if* each
volume that was accepted is looked at, the newest fetcher is listened to, and each
two libraries shown are cross-referenced.

**FSAppleScriptClient, FSAppleScriptServer** (`external/framework/Source/`). A
helper process runs the scripts. *State:* one connection, an ivar of the one client
that all threads use, without a lock; the name under which a helper has registered;
its quit timer. *Operations:* `run:function:arguments:error:`, which looks the
helper up, launches it, waits in a loop for its name and calls again when a call
raises; the server's `init`, `run:executeFunction:withArguments:` and `quit:`. *Hard:*
the helper may quit or crash at any time of a call; two threads test, release and
store the connection between each other's steps. *Right if* a call does not return
before its script has run, the script runs once, and each call ends.

**SEAudioController** (`Source/SEAudioController.m`), driven by
`SEVisualViewController.m` and `SETrackListViewController.m`. *State:* the playing
track, its movie and position, `playing`, the playing playlist, the list of tracks,
the end timer. *Operations:* play, pause, continue, stop, forward, back, scan; the
table is searched, sorted, or shows another playlist; the timer fires. *Hard:* the
movie runs on while the user does any of these, QuickTime tells nobody that it has
ended, and what comes next is looked up in a list that has changed since. *Right if*
a timer is always due before the end of the movie, the list follows the playing
playlist, and the tracks are played to the last.

**LXMobile** (`libxpod/Source/LXMobile.m`). Registers mobile devices on
callbacks of the system and copies files from them. *Right if* a device is
announced and withdrawn once.

**Files** (`external/framework/Source/FSFileManagerAdditions.m`). Unique names,
folders, free space.

**Libraries, playlists, tracks** (`Source/SEBaseLibrary.m` and its siblings).
Containers filled once.

**Main window, source list, track list; menus, preferences and other views;
registration and updates; SESenuti** (`Source/`). Interface, start and end.

`PROJECT.json` lists each of them with its sources, the hazards at their
lines, and for each definition the code it stands for.

## The modules

| module | models | uses |
| --- | --- | --- |
| `Looper` | `SELooper` | |
| `LooperPause` | the looper with a history variable that counts what a pause lets through | `Looper` |
| `WorkQueue` | *abstract:* what a consumer promises: objects in order, one at a time, finished, retried or cancelled | |
| `Consumer` | `SEConsumer` with its looper; each stretch between two accesses to shared state is a step | refines `Looper`, `WorkQueue` |
| `TwoPhase` | *abstract:* a line of objects, the first so many of which are ready for the second phase | |
| `PhasedConsumer` | two `SEPhasedConsumer`s and the cancel of both | refines `TwoPhase`, and `WorkQueue` once for each phase |
| `TrackCopying` | *abstract:* what the copying promises the user: tracks are added in order, at most once, a song only with its file, a reference only to a song that is there | |
| `CopyPipeline` | preprocessor, copier, adder, alerts, pause, continue and cancel of `SECopyController` | extends `PhasedConsumer`, refines `TrackCopying` |
| `MCCopyPipeline` | gives `CopyPipeline` tracks with a common origin | `CopyPipeline` |
| `CopyStatus` | `isWorking`, its posts and the flag `copying` | |
| `VolumeReading` | *abstract:* what the controller promises of the volumes that come: each mount is looked at once, one at a time and in order, and its library served once | |
| `Libraries` | `SELibraryController` and its fetchers | refines `VolumeReading` |
| `RemoteCalls` | *abstract:* what the client promises its callers: a call returns when its script has run, and a script runs again only for a crash | |
| `ScriptServer` | `FSAppleScriptClient`, `FSAppleScriptServer` and the helpers' coming and going | refines `RemoteCalls` |
| `Audio` | `SEAudioController`, the buttons, the slider and the table that drive it, and time | |
| `MCAudio` | gives `Audio` two playlists and every way to show them | `Audio` |
| `*_proofs` | theorems of the module they are named after | |

### How the models correspond to the code

*Looper.* `state`, `continueSemaphore` are the ivars. `pc` is the line of
`runWorker`: the call of `iteration`, the unlocked test for a pause
(`SELooper.m:97`), the wait (99), the test for an abort (102). `Leave` is the
critical region of `continue` and `abort`; `Signal` is the semaphore call after
it. A binary semaphore drops a signal while it holds one.

*Consumer.* `objects`, `activeObjects` (which may be nil), `currentIndex`, the
counts and both semaphores are the ivars. `pc` goes through `iteration` and
`activeObject`: `top` and `fetch` are the two locked counts and looks
(`SEConsumer.m:206`, `231`), `reset` to `asleep` the inner loop that sleeps, and the
rest the looper's. An adder's locals are `batch`, `signal` and `seen`;
`addObjects:` is append, read the count, store the count, signal. `abort` is its
three calls. A nil `activeObjects` answers 0 to `count` and nil to
`objectAtIndex:`, as messages to nil do. `Process(FALSE)` is an object that a
subclass leaves incomplete. A client hands over each object once, which bounds
the model, and no longer calls a consumer it has aborted.

*PhasedConsumer* takes a coarser grain, which `RefinesWorkQueue` justifies: the
worker takes the head of `active` where the code indexes. The semaphore between the
phases keeps its own steps: wait, signal, delete, create. `todo` is the rest of the
cancel under way, so that every step of the workers can come in between.
`Next` has no cancel, `CancelNext` has. `Ready` counts the objects the first phase
is done with; `Balanced` says that the signals held, being used and used up are as many as
those of them that the second phase should process: an object it should not process gets
no signal, and yet takes one.

*CopyPipeline* puts the subclasses' work where `PhasedConsumer` has `Iterate`,
`SetUpSecond`, `WillSleep` and `WillCancel`, and adds the looper's pause. A track
is its `rooted` (has a `destinationRoot`), `path` (the file is there) and
`reference`. `Decide` is what the preprocessor settles for an array, `AddToCopier` its
later `addObjects:`; in between (`chosen`) it may have ended the request.
`library` counts the answers of iTunes that a track is added. A script may also bring
neither a result nor an error (`AddUnheard`): `SEThreadedTrackAdder.m:264-265` takes that
for done, so that nothing is in the library, the duplicate stays, and a later track may be
made a reference to it; `unheard` is the history of those tracks.
`asking[p]` is a worker's `performSelectorOnMainThread:` with `waitUntilDone:YES`, of
`cancelCopying:` after a failure or, by the copier, of `chooseDuplicateStyle:` when a file is
there already; `alerts` is the stack of alerts, each inside the run
loop of the one below; only the topmost can be answered. `TakeDuplicates` and
`RemoveDuplicates` are `willCancel` up to the end of its lock and after it. `Faults` says what
may happen: a file that is skipped or asked about, a copy that fails, a script that times out
(-1712), fails for good or is not heard. To `TrackCopying`, the line is what waits for the adder, in
its arrays or on its way to them (`Ahead`), the turn is the adder's object, and the files,
songs and references are the same. A cancel drops a front part of the line and not always all
of it, because an array that has passed the emptied phase is still handed to the next.

*CopyStatus* is the part of `SEConsumer.m:94-103` and `SECopyController.m:268-275`
that decides `copying`; the main thread asks the consumers one at a time while
they go on.

*Libraries.* A mount is a volume and the number of the plug, since a library
read later is another object. `notices` and `mail` are the two sources of
the main thread. A fetcher's lock makes `TakeObjects` and the `addObjects:` in
`IPodMounted` atomic; reading a library, posting it and posting the end are steps
of the thread. The library is read from a volume that may be gone by then. The volumes listed at the
launch are those mounted then; some of them may be announced as well, because the
notices are asked for before (`SELibraryController.m:109`, `118`). `Mobiles` are devices:
announced like a volume, never listed, and ejected at once (`Eject`), while the device
stays and may still be read. To `VolumeReading`, a mount
waits from its notice on, in whichever fetcher it is, until it is looked at; the fetchers and
their closing are not seen.

*ScriptServer.* `client` is the ivar, `held` whether what it points to has been
retained and not yet released. `at[c]` is the line of `run:function:arguments:error:` a
caller is at, and after `Send` where its request is. The look up and the
assignment of lines 71 and 76 are two steps, because another thread's steps fit in
between. `isValid` says that a connection is good until it has `noticed` that the
helper has gone, and anything of one that has been released. A message to nil
answers nil (`CallNil`). A helper is one thread: it begins a request, runs the
script, replies; its timer fires only in between. `loads` is FALSE for a script whose file
cannot be read, which makes the server raise (`FSAppleScriptServer.m:66`).
`Quit` waits until nobody is in the loop of line 74: a caller there finds a
registered helper in far less than ten minutes. `runs`, `shared` and `crashes` are
history. To `RemoteCalls` a call is answered while its script has run and the helper that
ran it is up; a crash before the answer has arrived makes it wait again.

*Audio.* `pos` counts ticks of a track that lasts `Length` of them, and `due` the ticks
until the timer fires; 99% of what is left is all but the last tick, and the shorter
and shorter timers in that tick are one. `WatchForEnd` is the method with all it may
call, `playTrack:` included; that, in turn, calls it once more, at the start of a movie.
A movie that is nil has a progress of 0/0, which compares as false with anything, and a
timer is set with an interval that is no number (`NaN`); `back:` then plays it again. `list` is what
`updateTrackList` last took from the table, `visible` and `shown` what the table
holds. `Views` gives for each playlist what a search and the sorting may leave to see.
Two assumptions are made of what is not in `src/`: the length in the iPod's database is
that of the movie, and QuickTime plays on when the time of a movie at its end is set
back.

## The runs

All runs end with TLC's search complete or, for the last three, with the
counterexample the run is for.

| run | instance | states | shows |
| --- | --- | --- | --- |
| `LooperPause` | 2 callers | 221 | no continue or abort is lost (`NoLostContinue`, `ContinueResumes`); a pause is overrun by at most callers + 1 iterations (`OverrunBounded`) |
| `Consumer` | 2 objects, 1 of them not to be processed, 1 adder, 1 caller, arrays of 0 to 2 | 509 thousand | `NoLostWakeup`, `FetchInRange`, `Accounted`; it refines `Looper` and `WorkQueue`; everything is worked off (`AllWorkedOff`), and a worker whose looper is aborted ends or sleeps with nothing left (`AbortRests`) |
| `PhasedConsumer` | 3 objects, 1 of them not for the second phase, arrays of 1 or 2, no cancel | 75 thousand | `WaitsOnPreviousPhase`, `Balanced`; refines `TwoPhase`, and each phase a `WorkQueue` (`PhasesAreQueues`); `AllThrough` |
| `CopyAll` | 2 copies of one track, references preferred, all faults, nobody stops | 294 thousand | `CopiedIsAdded`, `ReferenceIsReal`, `GhostsUnheard`; an alert for each worker that asks, and no other (`AskedStands`); both may ask at once, and each gets its answer (`AskAnswered`); both tracks get through unless the adder dies (`EveryTrackDone`); refines `TrackCopying` |
| `CopyStopped` | 1 track, the user may stop at any time and again, copies fail, scripts time out, the copier asks | 527 thousand | `AddedOnce`, `PausesEnd`, `AskAnswered` |
| `CopyStatus` | 2 consumers, at most 4 posts waiting | 3 thousand | `FlagIsRight`, `NeverDownForGood`, `EndShown` |
| `Libraries` | 2 iPods, 1 of them a mobile device that may be ejected, and a volume without one; 1 mount after the notices are asked for, unmounts at will, iTunes loading | 88 thousand | `NewestHeard`, `EveryPairCrossed`, `FirstFetcherShowsAll`; each volume listed or announced is looked at (`EveryMountLookedAt`); refines `VolumeReading` |
| `ScriptServer` | 2 threads, the adder's and the main one, with 2 calls each, 2 helpers, 1 of which may crash | 241 thousand | `BlocksUnlessShared`, `ClientIsHeld`; each call ends unless no helper is coming or its script file cannot be loaded (`CallEnds`); refines `RemoteCalls` |
| `Audio` | 3 tracks, 2 playlists that share one, which is in one of them twice; 8 actions of the user | 49 thousand | `WatchedInTime`, `FollowsPlaylist`, `PlaysToTheEnd` |
| `BlocksUntilExecuted` | 2 threads with 1 call each, 1 helper, no crash | | one call returns without its script having run |
| `NoGhosts` | 1 track, with cancel, no faults | | its duplicate may stay |
| `WaitsOnPreviousPhase` | 2 objects, with cancel | | the second phase may overtake the first |

### Why the bounds are enough

- *Callers and adders.* The program has one thread that calls each looper, the
  main thread; the copier and the adder have one that adds, the
  preprocessor. `LooperPause` takes one caller more, so that one call comes
  between the region and the signal of another. What holds of `Looper` and of the
  safety of `Consumer` for any number of threads is proved.
- *Objects.* Two objects let one wait in `objects` while the other is in
  `activeObjects`, so that arrays are exchanged, both in one array or in two. One of
  them is not to be processed: it takes the short way through `iterateOverObject:`.
  The phases take three, so that one is ahead of, one between and one behind them; one of
  the three is not for the second phase, at any place in the line. That each phase stays a
  queue under cancels is proved.
- *Tracks.* Two copies of one track are the case the references are for:
  the second is decided on while the first is still to be copied, and two tracks let both
  workers ask at once. Both are to be added to iTunes; what a track that is not does to those
  behind it is the phases' doing, and is in `PhasedConsumer`. In `CopyStopped`, where the user's own alerts and
  cancels come in between, there is one: the alerts that nest there are the user's and a
  worker's. With one origin for all tracks, what `TrackCopying` says of the
  origin of a reference is not tried by the run; the proof takes any origins.
- *Posts.* Four posts hold a start and a finish of each of two consumers. The
  proofs of `CopyStatus` take any bound.
- *Plugs.* A mount after the launch makes another fetcher or none, according to whether
  the one before has closed; it may be of a volume that was listed at the launch, or has
  been unmounted meanwhile. The proofs of `Libraries` take any number of
  mounts and volumes.
- *Callers and helpers.* The adder and the main thread are the two callers the
  program has. With two calls each, the second meets a connection whose helper has
  gone; the second helper is the one launched then. What happens with a helper that
  nobody can launch any more is `Stranded`, which `CallEnds` excepts, as it does a script
  file that cannot be loaded. The proofs take any number of each.
- *Playing.* Four ticks have a start, a part in which `back:` goes to the track
  before, one in which it starts the track again, and an end. Eight actions let the user
  play, show another playlist, come back, search, scan and skip in one behaviour. A
  track that is in a playlist twice, and in both playlists, is the case in which places
  and lists can be confused.
- `overrun` is counted to one past its bound. In `Consumer` the counts are
  bounded by each object being added once.

A run says `CHECK_DEADLOCK FALSE` where the system may come to rest: all objects
have been added and worked off, all plugs used, or a worker that no one
will wake, all calls made, the last track at its end. The consumer, the looper and the copying that may be stopped always
have a caller that may call, and deadlock is checked there.

## Fairness

Weak fairness is asked of what the program's scheduling gives without anybody's
help, and nothing is asked of callers, of users who might copy, plug in or stop, or
of the world:

- *worker threads* are scheduled: `WF(Worker)`, per phase in the pipeline and per
  fetcher in `Libraries`;
- *a call once begun returns*: the signal after the region, the later steps of
  `addObjects:` and of `abort`, the two phases' `addObjects:`, a cancel's steps;
- *the main thread serves its run loop*: posts and notices are served; in the
  pipeline `SF(ShowAsked)`, because a turn of the run loop serves all that has been
  posted even if the user opens an alert in every turn;
- *a calling thread and the helper that serves it run on*: one `WF` for each caller,
  `Run(c) \/ Begin(c) \/ Serve(c)`. A released connection may answer anything, but not
  always the worst: `SF(Valid)`. None is asked of `Ask`, `Quit` and `Crash`;
- *time goes by and timers that are due fire*: `WF(Tick)`, `WF(due = 0 /\ Fire)`. None is asked
  of the user, nor of a timer whose interval was no number;
- *a user answers an alert*: `WF(Answer)`, but may answer either way;
- *a retried object is complete in the end*: `SF(Process(TRUE))` and its like. An
  object that is incomplete each time is tried for ever, as the code says
  (`SEConsumer.h:72-73`); the liveness properties are about the others. For the adder that is
  `SF(AddSong \/ AddReference \/ AddRaises)`: iTunes does not time out for ever.

## What is proved

TLAPS checks some 9,800 obligations. Assumed are the named assumptions of the
modules and nothing else: finite sets of callers (for the overrun), objects and
volumes; natural bounds; `Nil` apart from what it stands in for.

| theorem | for any | says |
| --- | --- | --- |
| `LooperPause_proofs!TypeCorrect`, `ContinueNotLost` | callers | the types; a worker that waits although the looper is not paused has a signal, or one on its way |
| `LooperPause_proofs!PauseOverrun` | finite set of callers | a pause is overrun by at most callers + 1 iterations |
| `Consumer_proofs!ConsumerTypes`, `FetchIsInRange`, `WakeupNotLost` | objects, adders, callers | the types; `objectAtIndex:` is in range; the worker never sleeps over objects nobody will wake it for |
| `Consumer_proofs!ConsumerIsLooper` | objects, adders, callers | a consumer implements the looper it inherits from |
| `Consumer_proofs!EveryObjectAccounted`, `ConsumerIsQueue` | objects, adders, callers | each object added is waiting, at hand, finished or cancelled, in one place, and those not cancelled keep their order; the consumer implements the queue it promises |
| `PhasedConsumer_proofs!PhasedHolds`, `SemaphoreBalanced`, `SecondWaits`, `PhasesRefine` | objects, wanted or not, and arrays of them; no cancel | the types; signals given and used are exactly as many as what the first phase is done with and the second should process; the second phase never overtakes the first; the two implement `TwoPhase` |
| `PhasedConsumer_proofs!PhasesStayQueues`, `CopyPipeline_proofs!PipelineIsQueues` | objects or tracks, faults, cancels | each phase implements the queue a consumer promises, whatever the other does to its semaphore; so do the copier and the adder |
| `CopyPipeline_proofs!PipelineIsPhased` | tracks, faults, cancels | copying tracks is a behaviour of the two phases and their cancel |
| `CopyPipeline_proofs!PipelineTypes`, `SongAddedOnce`, `PauseEnds` | tracks, faults, cancels | the types; no song is added again once iTunes has answered; no phase is paused when the last alert has gone |
| `CopyPipeline_proofs!AskedStandsHolds` | tracks, faults, cancels | a worker that waits for the user has exactly one alert once the main thread has heard of it, and no alert is left over |
| `CopyPipeline_proofs!CopyingRefines`, `LibraryStaysSound` | tracks, origins, faults, cancels | the pipeline implements `TrackCopying`; a song in the library has its file and was wanted, and a reference is made only to a song of the same origin |
| `CopyPipeline_proofs!CopiesAreAdded`, `ReferencesAreReal`, `GhostsAreUnheard` | tracks and faults; no cancel | unless iTunes was not heard: what is copied and gone through is in the library; a reference is to a song the library has, if it was copied; no duplicate is left when all is quiet |
| `CopyStatus_proofs!FlagRight`, `NotDownForGood` | consumers, posts | with all posts served, `copying` says whether a consumer works; one that works while it is down has its start on the way |
| `Libraries_proofs!LibraryTypes`, `NothingLeftBehind`, `NewestIsHeard`, `EveryPairIsCrossed`, `FirstShowsAll` | volumes, mounts | the types; a fetcher closes with nothing left; a fetcher that ends late does not silence a newer one; every two libraries shown are crossed; until the first fetcher is replaced, every iPod mounted is shown once all has been served |
| `Libraries_proofs!ReadingRefines` | volumes, mounts | the fetchers, however many, implement `VolumeReading` |
| `ScriptServer_proofs!ServerHolds`, `BlocksAlone`, `ScriptRunsOnce`, `ClientHeld` | callers, calls, helpers, crashes | the types; a call that no other overlapped does not return before its script has run; a script runs at most once more than helpers have crashed; a released connection is in the ivar only until the caller that released it has stored another |
| `ScriptServer_proofs!CallsRefine` | callers, calls, helpers, crashes | what the callers see is `RemoteCalls` |
| `Audio_proofs!AudioHolds`, `AlwaysWatched`, `ListFollows` | tracks, playlists, views, lengths | the types; a movie that plays is watched by a timer due before its end; the playing track and the list are of the playing playlist |

Each follows from an inductive invariant.

*Looper.* `NoLostContinue` is inductive together with the types: a continue or an
abort that leaves the state of a pause either finds the worker before its test, or
is about to signal.

*The overrun.* `OverrunBounded` says nothing about how much overrun is still to
come, so it is not inductive. `PauseInv` gives the pause a budget: the iterations
begun, the signal held, the callers that are still to signal, and the iteration the
worker may be on its way to, are together at most the bound. Each step of the
worker only turns one item of the sum into another.

*Consumer.* `ConsumerInv` adds to the three properties where they meet the program
counters: `SignalIsLocal` (a signal that is due is sent after the count has been
stored, and by the adder that found the array empty) and `HandHeld` (an object that
is finished was at hand, without which `Advance` would append nothing to
what is finished). `NoLostWakeup` is then kept by each step: only an append to an
empty array makes the arrays non-empty, and that adder owes a signal; only the worker
takes a signal, and it looks at the array again before it sleeps.

*Consumer implements Looper.* All of `iteration` is the looper's call of it, so the
consumer's steps within it are stutters and its other steps are the looper's. Needed is only
`Started`: a looper that has not been executed has its worker at the start.

*Consumer implements WorkQueue.* The abstract queue is what is left of `activeObjects`
behind the index and then `objects`. Steps map to steps because of `AtHand`: the
object at hand is the one at the index, unless a cancel has taken the array, and arrays are
exchanged only when the index has reached the end. `Accounted` says that what was
added is what is finished, dropped, at hand and queued; it is inductive with
`HandsFresh` (an array an adder holds has objects nobody has added before) and
`CancelledAtHand` (an object cancelled while at hand is counted once).

*PhasedConsumer.* `PhasedInv` says without a cancel (`Uncancelled`) where each object
is: `Aligned`, what is pending in the first phase is the end of what is pending in the
second; `InHand`, a phase that works on an object holds the head of its line. `Enough`
joins that to the semaphore: a pass costs a signal, a signal comes after an object, so the
passes are at most the objects the first phase is done with, which is
`WaitsOnPreviousPhase` and the guard of `TwoPhase`. `Balanced` counts more exactly, and its proof
follows each signal: given for an object that is wanted, taken by a pass, given back by a retry.

*Each phase implements WorkQueue*, with cancels at any time. `QueuesInv` is what is left of
the above when anything may be dropped between two steps: `Held`, a phase that works has an
object; `AtHand`, it is the head of its array unless a cancel has emptied that; `BatchKept`, what
is handed on to the second phase is one of the arrays clients add. `PipelineIsQueues` is the same of the
pipeline, whose steps are steps of the phases.

*CopyPipeline.* `PipelineIsPhased` says that each step of the pipeline is one of the
phases, of their cancel, or leaves them alone; what is proved of the phases may then be used.
With a cancel at any time, `QueueInv` still holds: the line of objects (what the second phase
has to do, then what is on its way to it) has none twice, and `Forth` says that one that has
left it never comes back. `SongsInv` joins that to iTunes: a song it holds is of a track
that has left the line, or of the one just finished; so the track at hand is never one of
them. `PauseInv` needs that an alert stays on the screen while its cancel goes on. Without a
cancel (`UncancelledInv`) more is known of a track. `FlowInv`: what was handed over is in the
line or done in the second phase, and not both. `ReferenceInv`: a reference is to a track
that comes earlier in the line or has left it, and is a song of its own. `ThroughAdded`: such a
track, once gone through, is in the library if it was copied, or iTunes was not heard.
`ReferenceIsReal` follows from the three. `DuplicatesInv` (a duplicate of a track gone
through is of one not heard) and `RestInv` (an adder that sleeps has nothing left) give
`GhostsUnheard`; the run `NoGhosts` shows a duplicate that a cancel leaves.

*The pipeline implements TrackCopying*, also with cancels. `FirstInv` says of the copier
what `QueueInv` says of the adder: what it has to do, it has not done. So a track that it
may still copy has no file yet (`FilesInv`), which makes a copy a step of `CopyFile`.
`SettledInv` says of references what `SongsInv` says of songs, so that what is added is
never there already. `OriginInv`: the preprocessor and the adder choose a reference among copies of the
same track. That the file of a song is there, and the song of a reference, is the guard of
the code at that very step (`SEThreadedTrackAdder.m:184`, `217`) and needs no invariant;
`LibraryStaysSound` says that no later step takes it away.

*Alerts.* `AskedStands` is inductive with the types: a worker asks only while it works and waits
for its answer, an alert is opened for one post at a time, only the topmost is answered, and
the user's own is opened only with no other on the screen.

*ScriptServer.* `Placed` and `OverlapsKnown` say where a caller may be while others are in
the client: the ivar is unheld only while a caller is in the loop, and a caller that is not
marked `shared` has had nobody else in it. `AloneHasClient`: such a caller is about to
send over the connection it tested. `RanHasRun`: one that has an answer has run its
script. `RunsPaid` gives every run of a script after the first a crash of its own: a helper
quits only between requests, so a call that raised after its script had run was raised by a
crash. `CallsRefine` adds `OneServed`: a helper has at most one request whose script runs or
has run and whose answer is still out, so that a crash takes one answer.

*Audio.* `WatchedInTime` and `FollowsPlaylist` are inductive with the types and
`ShowsViews`, that the table shows one of the views of its playlist. The proof of
`WatchedInTime` is one lemma for each method, in the order in which they call each
other; `IntervalInTime` says that 99% of what is left is before the end. For
`FollowsPlaylist`, `NeighboursInList` says that the track before or after the playing
one stands in the list, and `PlaysOn` that no step but one from the table plays
anything else.

*CopyStatus.* `StatusInv` follows each post to what it will do. `StartsShown`: a
consumer that works and is not shown, or that began to work after it was asked,
has a start on its way. `StartsEnd`: a start that waits belongs to a consumer that
works, or whose finish is behind it. `FlagEnds`: while the flag is up someone works or
a finish is coming. With no posts left, the two directions of `FlagIsRight` are
`StartsShown` and `FlagEnds`.

*Libraries.* `Closed` (one that closes has nothing and takes nothing more) gives
`NoneLeftBehind`. `NewestHeard` needs that the end of a fetcher is posted once
(`EndsOnce`) and at its end (`EndsPosted`): if the current fetcher's end is served,
no second one of it is still in the queue. `MountsInOrder` and `Unmade` see to it that
a new fetcher is really new: each is made for a mount of its own, in the order of the
mounts. `EveryPairCrossed` rests on the main thread alone and is inductive as it
stands. For `FirstFetcherShowsAll`, `NoneForgotten` says where an iPod that is mounted is:
announced, with the first fetcher, in its posts, or shown. It is kept because the end of a
fetcher is its last post (`EndComesLast`), so that the controller has not let go of it while
a library is on the way, and because a removal that is served late is followed by the
mount that came after it (`RemountComes`).

*Libraries implements VolumeReading.* Each mount goes through four queues: the notices, the
objects of a fetcher, those it has taken, the posts. `LineInv` says that they are one line.
`OneReads`: a fetcher that is not the newest is closing or has ended, and has nothing, because the
controller makes another only when it has none or the one it has is closed. `QueuesSorted`: each queue is in the
order of the mounts. `LineSorted`: what is in a queue comes before what is in the queues
behind it. What is looked at, or served, is then the head of its queue and the first of all that
wait, and is in no other queue, so it is not looked at or served again.

*Only model-checked:* liveness, which needs fairness and is beyond TLAPS here: `ContinueResumes`,
`AbortRests`, `AllWorkedOff`, `AllThrough`, `EveryTrackDone`, `AskAnswered`, `EndShown`,
`EveryMountLookedAt`, `CallEnds` and `PlaysToTheEnd`. Every other property of a passing run,
each invariant and each refinement, is also a theorem. What is proved and no longer run: the
types, `NoneLeftBehind` and `RunsOnce`, which the refinements replaced in the runs.

## Where the code and its comments part

Three runs each find a behaviour that a comment rules out.

- **`BlocksUntilExecuted`.** "This blocks until the script is executed"
  (`FSAppleScriptClient.h:26`). All threads share one client and its ivar `client`,
  without a lock. Two that find no helper both look the name up, and one may
  store the nil it got (`FSAppleScriptClient.m:71`, `76`) over the connection the other
  has just tested. A message to nil returns at once: no script has run, and there is
  neither a result nor an error. The adder takes that for a track that was added.
- **`WaitsOnPreviousPhase`.** `cancel` deletes and makes the semaphore
  (`SEPhasedConsumer.m:69-70`). A phase that comes to its wait in between gets an
  error at once, and works on an object added meanwhile that the first has not
  finished.
- **`NoGhosts`.** `willCancel` takes back the duplicates of tracks that will not become
  real (`SEThreadedTrackAdder.m:74-76`), as far as they are registered. A track is set up
  and registered before it is in the adder's queue; an adder that has just found its queue
  empty clears all registrations as it goes to sleep (112-118). The track then arrives, the
  copying is stopped before the adder comes to it, `willCancel` finds nothing, and the
  duplicate stays.

Met while modelling, and not given a run:

- `abort` signals `processSemaphore` to "allow worker thread to exit"
  (`SEConsumer.m:79`). The worker that wakes finds no objects and sleeps again
  inside `activeObject` (212-226), where it does not look at `state`. It never exits.
  `Consumer!AbortExits` states what the comment says, and fails; `AbortRests` says what does
  become of the worker.
- A script call "can not be called on the main thread otherwise the application will lock
  up" (`FSAppleScriptClient.h:26-27`). `SEAudioController.m:224` calls it there, to pause
  iTunes. The main thread waits as long as the script takes; then its call comes back as any
  other does (`CallEnds`), with two exceptions, for which `ScriptServer!NoLockUp` fails with
  the main thread as the caller. A script file that cannot be loaded makes the server raise
  (`FSAppleScriptServer.m:66`), and the client answers each exception with another call
  (`FSAppleScriptClient.m:91`), for ever. A helper that cannot be launched, or has crashed
  before it registered, leaves the caller in the loop of line 74.
- The first phase signals only for objects the second should process
  (`SEPhasedConsumer.m:83`); the second waits for a signal for each object (81). A
  track that is copied but not added to iTunes holds the adder up: the ones behind it each
  wait for the signal of the next, and the last as many as such tracks wait for ever.
  `AllThrough` and `EveryTrackDone` say that this is all that is held up.
- A track taken as added although iTunes was not heard (`SEThreadedTrackAdder.m:264-265`) leaves its
  duplicate, and a later copy of the same track may become a reference to it, for which
  there is no persistent ID (190).
- A volume mounted between the registration for notices and the listing of the volumes
  (`SELibraryController.m:109`, `118`) is read twice and shown twice; its removal takes one of
  the two libraries away (224-229).
- A mobile device that is ejected while another library of it is still being read comes
  back when that is served (`SELibraryController.m:155`).
- `hasIPods` "will be updated when the iPod has been fully loaded"
  (`SELibraryController.h:40-46`). A library whose fetcher is replaced before the post is
  served is dropped (`SELibraryController.m:270`). `Libraries!HasIPodsWhenLoaded` states
  what the comment says.
- A pause may let through more than the iteration under way: a continue that nobody
  needed leaves its signal, and the next pause ends on it (`SELooper.m:96-99`).
  `OverrunBounded` says how far that goes; with one caller it is two tracks.
- After an abort the worker still sets `isWorking` and tells its delegate, if it
  was asleep (`SEConsumer.h:45-46`).
- A cancel between the two `addObjects:` of `SEPhasedConsumer.m:75-76` empties the first phase
  and not the second, which then waits for a signal (`SEPhasedConsumer.h:34`).
- After a cancel the semaphore may hold a signal of an object the first phase had at
  hand, and the next object of the second may pass on it.
- The removal of an iPod that is served before the library read from it finds
  nothing to remove; the library is shown afterwards, although the iPod is gone.
- A script that timed out may have added its song; the retry then adds it again.
  `library` counts answers, not songs.
- A track paused within its last 0.1% is taken to have ended when the timer fires, and
  the next one plays. So it is when the slider is dragged to the end of a paused track
  (`SEAudioController.m:277-290`).
- After the last track `playing` stays `TRUE`. A file that is missing stops the sequence:
  its movie is nil, and no timer of it ever finds the end. An empty list leaves
  `playing` without a track. A search that hides the playing track leaves it without a
  next one; a track that is in the list twice is found at its first place, so that
  playing goes round (122).

## What is not modelled

- Conditions that a worker sees only through its data: names of files, metadata, free
  space, preferences. Their outcomes are choices of the actions. A preprocessor
  that gives up, because no folder was chosen or the space does not suffice, has
  done nothing, and is a request that never came.
- The delay of the `completedCount` notification, `currentObject` and
  `mostRecentObject`, the sums of the counts: they are only displayed.
- `dealloc` of loopers: a detached thread retains its target, so it runs
  after the worker has ended.
- What Foundation does with a set that one thread enumerates and another changes (the
  similar and duplicate tracks): the search for a reference is one step.
- The cross referencer's work on the tracks: `crossed` records what it was
  given.
- The release of `SECopyController`, which aborts the preprocessor, the adder and the
  copier (`SECopyController.m:94-96`); the abort itself is in `Consumer`.
- What the scripts do and how their arguments become an event, iTunes, the volumes and
  devices: what the code in `src/` can see of them is their answers.
- The volume of the sound, and the call that pauses iTunes before a track is played, which is one more
  call of `ScriptServer`.
- Mobile devices (`LXMobile.m`): the callbacks come from a private framework of the
  system, whose order and threads nothing in the repository tells. `Libraries` has them
  announced and withdrawn as volumes are.
- A volume that is unmounted between the registration for notices and the listing.
- The source list and the table: what is shown for a given set of libraries. They
  run on the main thread alone.
- Files: unique names, folders and free space are functions of a file system that
  other programs change.
- The other components listed in [the system](#the-system) without a module: the
  libraries are data; menus, preferences, registration and updates are interface;
  libgpod, glib, gettext, Sparkle and the crash reporter are not the program's own.

## Plan

Done, in this order: `Looper`, `LooperPause`, `WorkQueue`, `Consumer`, `TwoPhase`,
`PhasedConsumer`, `CopyPipeline`, `CopyStatus`, `Libraries`, `ScriptServer`, `Audio`, then the
abstract `TrackCopying`, `RemoteCalls` and `VolumeReading`, with the theorems above.

Left:

1. `Player`: what the controller of the sound promises, with `Audio` shown to implement it.
2. What a removal that is served before the library read from the volume leaves on the
   screen, and until when (`SELibraryController.m:220`).
3. `Mobile`: `LXMobile`, once the order of its callbacks is known.
4. `SourceList`: the selection kept over a reload of the source list.
5. `Files`: unique names and the creation of folders as operators checked against a
   definition of what they should return.
