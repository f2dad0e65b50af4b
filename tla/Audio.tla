-------------------------------- MODULE Audio --------------------------------
(***************************************************************************)
(* SEAudioController (src/Source/SEAudioController.m) with the view that   *)
(* drives it (SEVisualViewController.m, SETrackListViewController.m):      *)
(* tracks are played one after the other, in the order in which the table  *)
(* shows the playlist they are played from.  QuickTime does not tell when  *)
(* a movie has ended, so a timer is set to 99% of the time that is left    *)
(* and looks again: it is set anew until the end is near enough.           *)
(*                                                                         *)
(* Everything happens on the main thread; the hard part is that the movie  *)
(* runs on while the user scans, pauses, skips, searches and shows other   *)
(* playlists, and the timer, the position, the playing playlist and the    *)
(* list of tracks have to stay in step.  Time goes by in ticks; the runs   *)
(* of the timer in the last tick are one.  The library's length of a track *)
(* is taken to be its movie's duration; QuickTime, to play on when its     *)
(* time is set back from the end.  A file that is missing when it is       *)
(* opened gives no movie, and a movie that is nil a progress that is not a *)
(* number, which is no more than anything and no less.  Left out: the      *)
(* volume, pausing iTunes (ScriptServer), and what is drawn.               *)
(***************************************************************************)
EXTENDS Integers, Sequences

CONSTANTS
  Tracks,
  Playlists,
  Views,         \* per playlist: what the table may show of it, in which order
  Length,        \* the ticks a track lasts
  Early,         \* up to here -back: goes to the track before (5 seconds)
  MaxActions,    \* bound: what the user does
  Nil, NoTimer,
  NaN            \* the interval of a timer for a movie that is nil

ASSUME AudioAssumption ==
  /\ Length \in Nat \ {0}
  /\ Early \in Nat
  /\ MaxActions \in Nat
  /\ Views \in [Playlists -> SUBSET Seq(Tracks)]
  /\ Nil \notin Tracks \cup Playlists
  /\ {NoTimer, NaN} \cap Nat = {}
  /\ NoTimer # NaN

VARIABLES
  track,         \* playingTrack
  movie,         \* movie is not nil
  pos,           \* GetMovieTime
  playing,
  playlist,      \* playingPlaylist
  list,          \* trackList
  due,           \* ticks until the end timer fires, if one is scheduled
  shown,         \* the playlist in the table, Nil with nothing selected
  visible,       \* the tracks in the table
  acts           \* history: how often the user has done something

movieVars == <<track, movie, playlist>>
viewVars == <<shown, visible>>
vars == <<movieVars, pos, playing, list, due, viewVars, acts>>

Timers == 0..Length \cup {NoTimer, NaN}

TypeOK ==
  /\ track \in Tracks \cup {Nil}
  /\ movie \in BOOLEAN
  /\ pos \in 0..Length
  /\ playing \in BOOLEAN
  /\ playlist \in Playlists \cup {Nil}
  /\ list \in Seq(Tracks)
  /\ due \in Timers
  /\ shown \in Playlists \cup {Nil}
  /\ visible \in Seq(Tracks)
  /\ acts \in 0..MaxActions

Init ==
  /\ track = Nil
  /\ movie = FALSE
  /\ pos = 0
  /\ playing = FALSE
  /\ playlist = Nil
  /\ list = << >>
  /\ due = NoTimer
  /\ shown = Nil
  /\ visible = << >>
  /\ acts = 0

-----------------------------------------------------------------------------
(* SEAudioController.                                                      *)

Paused == track # Nil /\ ~playing

\* -indexOfObjectIdenticalTo: finds the first place of the playing track.
IsPlace(i) == list[i] = track /\ \A j \in 1..(i - 1) : list[j] # track

NextTrack ==
  LET places == {i \in 1..(Len(list) - 1) : IsPlace(i)}
  IN  IF places = {} THEN Nil ELSE list[(CHOOSE i \in places : TRUE) + 1]

PreviousTrack ==
  LET places == {i \in 2..Len(list) : IsPlace(i)}
  IN  IF places = {} THEN Nil ELSE list[(CHOOSE i \in places : TRUE) - 1]

AtEnd(x) == movie /\ x = Length

\* 99% of what is left ends before it, by less than the last tick.
Interval(x) == IF Length - x > 1 THEN Length - x - 1 ELSE 1

\* -setPlayingTrack: opens the file, but for a track that is playing already.
Opens(t) ==
  IF t = track THEN {movie} ELSE IF t = Nil THEN {FALSE} ELSE BOOLEAN

\* -playTrack:inPlaylist:updateTrackList:, up to -updateTrackList.
Play(t, p) ==
  /\ track' = t
  /\ movie' \in Opens(t)
  /\ pos' = 0
  /\ playing' = TRUE
  /\ playlist' = p
  /\ due' = IF movie' THEN Interval(0) ELSE NaN

\* Mutant: the list is taken from the table whatever it shows.
UpdateAlways(p, s, v) == list' = v

\* -updateTrackList, with p playing and the tracks v of s in the table; nothing
\* playing and nothing selected are the same nil.
UpdateTrackList(p, s, v) == list' = IF s = p THEN v ELSE list

PlayAndUpdate(t, p) == Play(t, p) /\ UpdateTrackList(p, shown, visible)

\* Mutant: a timer is only set when there is none.
WatchUnlessWatched(x, on, timer) ==
  \/ /\ AtEnd(x)
     /\ NextTrack # Nil
     /\ Play(NextTrack, playlist)
  \/ /\ AtEnd(x) => NextTrack = Nil
     /\ UNCHANGED movieVars
     /\ pos' = x
     /\ playing' = on
     /\ due' = IF AtEnd(x) \/ ~on \/ timer # NoTimer THEN timer
               ELSE IF movie THEN Interval(x) ELSE NaN

\* Mutant: at the end of a track only the timer is cleared.
WatchOnly(x, on, timer) ==
  /\ UNCHANGED movieVars
  /\ pos' = x
  /\ playing' = on
  /\ due' = IF AtEnd(x) \/ ~on THEN timer ELSE IF movie THEN Interval(x) ELSE NaN

\* -watchForEnd:, with the movie at x, playing if on, and the timer left that
\* is scheduled when it is called.
WatchForEnd(x, on, timer) ==
  \/ /\ AtEnd(x)
     /\ NextTrack # Nil
     /\ Play(NextTrack, playlist)
  \/ /\ AtEnd(x) => NextTrack = Nil
     /\ UNCHANGED movieVars
     /\ pos' = x
     /\ playing' = on
     /\ due' = IF AtEnd(x) \/ ~on THEN timer ELSE IF movie THEN Interval(x) ELSE NaN

Continue == WatchForEnd(pos, TRUE, due) /\ UNCHANGED list

Pause == playing' = FALSE /\ UNCHANGED <<movieVars, pos, list, due>>

\* The timer is left as it is.
Stop ==
  /\ track' = Nil
  /\ movie' = FALSE
  /\ pos' = 0
  /\ playing' = FALSE
  /\ playlist' = Nil
  /\ UNCHANGED <<list, due>>

Skip(t) ==
  \/ t # Nil /\ Play(t, playlist) /\ UNCHANGED list
  \/ t = Nil /\ Stop

-----------------------------------------------------------------------------
(* The user.                                                               *)

Acts == acts < MaxActions /\ acts' = acts + 1

\* Any track of the table may be selected, and the first stands in for none;
\* from an empty table no track is played.
PlaySelected == \E i \in 1..Len(visible) : PlayAndUpdate(visible[i], shown)
StartSelected ==
  \/ PlaySelected
  \/ visible = << >> /\ PlayAndUpdate(Nil, shown)

\* -toggleTrackPlaying:, sent by the button or by the space bar.
TogglePlaying(button) ==
  /\ Acts
  /\ \/ Paused /\ playlist = shown /\ Continue
     \/ Paused /\ playlist # shown /\ button /\ Stop
     \/ Paused /\ playlist # shown /\ ~button /\ StartSelected
     \/ playing /\ playlist = shown /\ Pause
     \/ playing /\ playlist # shown /\ Stop
     \/ ~Paused /\ ~playing /\ StartSelected
  /\ UNCHANGED viewVars

\* -playSelectedSong:, a double click in the table.
PlaySelectedSong ==
  /\ Acts
  /\ PlaySelected
  /\ UNCHANGED viewVars

\* The buttons and the slider are enabled while a track is playing or paused.
Enabled == playing \/ Paused

Forward ==
  /\ Acts
  /\ Enabled
  /\ Skip(NextTrack)
  /\ UNCHANGED viewVars

\* The time of no movie is not a number, and so not early.
Back ==
  /\ Acts
  /\ Enabled
  /\ \/ movie /\ pos < Early /\ Skip(PreviousTrack)
     \/ ~(movie /\ pos < Early) /\ Play(track, playlist) /\ UNCHANGED list
  /\ UNCHANGED viewVars

\* -setProgress:, the slider.
SetProgress(x) ==
  /\ Acts
  /\ Enabled
  /\ WatchForEnd(IF movie THEN x ELSE pos, playing, due)
  /\ UNCHANGED <<list, viewVars>>

\* What the table shows changes: another playlist is selected, or none ...
SelectPlaylist(p) ==
  /\ Acts
  /\ p # shown
  /\ shown' = p
  /\ visible' \in IF p = Nil THEN {<< >>} ELSE Views[p]
  /\ UpdateTrackList(playlist, shown', visible')
  /\ UNCHANGED <<movieVars, pos, playing, due>>

\* ... or the table is searched or sorted.
SearchOrSort ==
  /\ Acts
  /\ shown # Nil
  /\ visible' \in Views[shown]
  /\ UpdateTrackList(playlist, shown, visible')
  /\ UNCHANGED <<shown, movieVars, pos, playing, due>>

User ==
  \/ \E button \in BOOLEAN : TogglePlaying(button)
  \/ PlaySelectedSong \/ Forward \/ Back \/ SearchOrSort
  \/ \E x \in 0..Length : SetProgress(x)
  \/ \E p \in Playlists \cup {Nil} : SelectPlaylist(p)

-----------------------------------------------------------------------------
(* Time.                                                                   *)

MovieRuns == playing /\ movie /\ pos < Length
TimerRuns == due \in Nat \ {0}

\* The timer may be late: the movie runs on while it is due.
Tick ==
  /\ MovieRuns \/ TimerRuns
  /\ pos' = IF MovieRuns THEN pos + 1 ELSE pos
  /\ due' = IF TimerRuns THEN due - 1 ELSE due
  /\ UNCHANGED <<movieVars, playing, list, viewVars, acts>>

\* What a timer does that was given no number for its interval is undefined.
Fire ==
  /\ due \in {0, NaN}
  /\ WatchForEnd(pos, playing, NoTimer)
  /\ UNCHANGED <<list, viewVars, acts>>

-----------------------------------------------------------------------------
Next == User \/ Tick \/ Fire

Spec == Init /\ [][Next]_vars

\* Time goes by and the run loop fires its timers; the user need do nothing.
FairSpec == Spec /\ WF_vars(Tick) /\ WF_vars(due = 0 /\ Fire)

-----------------------------------------------------------------------------
(* Properties.                                                             *)

\* While a movie plays, a timer is scheduled that fires before it ends,
\* whatever the user has done to the position and the track since it was set
\* (SEAudioController.m:277).
WatchedInTime == MovieRuns => due \in 0..(Length - pos)

Holds(p, t) == \E v \in Views[p] : \E i \in DOMAIN v : v[i] = t

\* What plays, and what plays next, comes from the playlist that is playing,
\* also while the table shows another, and next is what follows in the table
\* while it shows that one (SEAudioController.m:103, 122).
FollowsPlaylist ==
  /\ track # Nil => playlist # Nil /\ Holds(playlist, track)
  /\ playlist # Nil =>
       /\ list \in Views[playlist]
       /\ shown = playlist => list = visible

Repeats(s) == \E i, j \in 1..Len(s) : i # j /\ s[i] = s[j]

\* Left alone, the tracks of a list are played to the end of the last, or up
\* to one that cannot be opened.  A list in which a track repeats goes round
\* and round, for the track's first place counts (SEAudioController.m:123).
PlaysToTheEnd ==
  acts = MaxActions /\ MovieRuns /\ ~Repeats(list)
    ~> ~movie \/ (pos = Length /\ NextTrack = Nil)
=============================================================================
