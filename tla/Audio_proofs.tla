----------------------------- MODULE Audio_proofs ----------------------------
(***************************************************************************)
(* Theorems about Audio, for any playlists and lengths of tracks, and any  *)
(* number of the user's actions.                                           *)
(***************************************************************************)
EXTENDS Audio, TLAPS

\* The table shows a view of the playlist that is selected.
ShowsViews ==
  /\ shown = Nil => visible = << >>
  /\ shown # Nil => visible \in Views[shown]

AudioInv ==
  /\ TypeOK
  /\ ShowsViews
  /\ WatchedInTime
  /\ FollowsPlaylist

\* What an action does to the movie, and what it does to the list.
MovieTypes ==
  /\ track \in Tracks \cup {Nil}
  /\ movie \in BOOLEAN
  /\ pos \in 0..Length
  /\ playing \in BOOLEAN
  /\ playlist \in Playlists \cup {Nil}
  /\ due \in Timers

ViewTypes ==
  /\ list \in Seq(Tracks)
  /\ shown \in Playlists \cup {Nil}
  /\ visible \in Seq(Tracks)
  /\ acts \in 0..MaxActions

MovieOK == MovieTypes /\ WatchedInTime
ViewOK == ViewTypes /\ ShowsViews /\ FollowsPlaylist

LEMMA InvParts == AudioInv <=> MovieOK /\ ViewOK
  BY DEF AudioInv, MovieOK, ViewOK, TypeOK, MovieTypes, ViewTypes

-----------------------------------------------------------------------------
(* The operators of the audio controller.                                  *)

LEMMA IntervalInTime ==
  ASSUME NEW x \in 0..Length, x < Length
  PROVE  Interval(x) \in 0..(Length - x) /\ Interval(x) \in 0..Length
  BY AudioAssumption DEF Interval

LEMMA Neighbours ==
  ASSUME ViewTypes
  PROVE  NextTrack \in Tracks \cup {Nil} /\ PreviousTrack \in Tracks \cup {Nil}
<1>1. NextTrack \in Tracks \cup {Nil}
  <2> DEFINE places == {i \in 1..(Len(list) - 1) : IsPlace(i)}
  <2>1. places # {} => (CHOOSE i \in places : TRUE) \in 1..(Len(list) - 1)
    BY Zenon
  <2>2. \A i \in 1..(Len(list) - 1) : list[i + 1] \in Tracks
    BY DEF ViewTypes
  <2>3. QED BY <2>1, <2>2 DEF NextTrack
<1>2. PreviousTrack \in Tracks \cup {Nil}
  <2> DEFINE places == {i \in 2..Len(list) : IsPlace(i)}
  <2>1. places # {} => (CHOOSE i \in places : TRUE) \in 2..Len(list)
    BY Zenon
  <2>2. \A i \in 2..Len(list) : list[i - 1] \in Tracks
    BY DEF ViewTypes
  <2>3. QED BY <2>1, <2>2 DEF PreviousTrack
<1>3. QED BY <1>1, <1>2

\* Whatever is played, a timer is set for it.
LEMMA PlayWatches ==
  ASSUME MovieOK, NEW t \in Tracks \cup {Nil}, NEW p \in Playlists \cup {Nil}, Play(t, p)
  PROVE  MovieOK'
<1>1. movie' \in BOOLEAN
  BY DEF Play, Opens, MovieOK, MovieTypes
<1>2. 0 \in 0..Length /\ 0 < Length
  BY AudioAssumption
<1>3. due' \in Timers /\ (movie' => due' \in 0..(Length - 0))
  <2>1. CASE movie'
    BY <2>1, <1>2, IntervalInTime DEF Play, Timers
  <2>2. CASE ~movie'
    BY <2>2 DEF Play, Timers
  <2>3. QED BY <2>1, <2>2
<1>4. pos' = 0 /\ track' = t /\ playlist' = p
  BY DEF Play
<1>5. playing' \in BOOLEAN
  BY DEF Play
<1>6. MovieTypes'
  BY <1>1, <1>2, <1>3, <1>4, <1>5 DEF MovieTypes
<1>7. WatchedInTime'
  BY <1>3, <1>4 DEF WatchedInTime, MovieRuns
<1>8. QED BY <1>6, <1>7 DEF MovieOK

\* The timer that is scheduled need not be in time, for it is set again
\* unless nothing plays.
LEMMA WatchWatches ==
  ASSUME MovieOK, ViewTypes, NEW x \in 0..Length, NEW on \in BOOLEAN, NEW timer \in Timers,
         WatchForEnd(x, on, timer)
  PROVE  MovieOK'
<1>1. CASE AtEnd(x) /\ NextTrack # Nil /\ Play(NextTrack, playlist)
  <2>1. NextTrack \in Tracks \cup {Nil} /\ playlist \in Playlists \cup {Nil}
    BY Neighbours DEF MovieOK, MovieTypes
  <2>2. QED BY <1>1, <2>1, PlayWatches
<1>2. CASE /\ UNCHANGED movieVars
           /\ pos' = x
           /\ playing' = on
           /\ due' = IF AtEnd(x) \/ ~on THEN timer
                     ELSE IF movie THEN Interval(x) ELSE NaN
  <2>1. CASE AtEnd(x) \/ ~on
    <3>1. due' \in Timers /\ ~MovieRuns'
      BY <1>2, <2>1 DEF AtEnd, MovieRuns, movieVars
    <3>2. QED BY <1>2, <3>1 DEF MovieOK, MovieTypes, WatchedInTime, movieVars
  <2>2. CASE ~(AtEnd(x) \/ ~on) /\ movie
    <3>0. x # Length
      BY <2>2, Zenon DEF AtEnd
    <3>1. x < Length
      BY <3>0, AudioAssumption
    <3>2. due' \in Timers /\ due' \in 0..(Length - pos')
      BY <1>2, <2>2, <3>1, IntervalInTime DEF Timers
    <3>3. QED BY <1>2, <3>2 DEF MovieOK, MovieTypes, WatchedInTime, movieVars
  <2>3. CASE ~(AtEnd(x) \/ ~on) /\ ~movie
    <3>1. due' \in Timers /\ ~MovieRuns'
      BY <1>2, <2>3 DEF MovieRuns, movieVars, Timers
    <3>2. QED BY <1>2, <3>1 DEF MovieOK, MovieTypes, WatchedInTime, movieVars
  <2>4. QED BY <2>1, <2>2, <2>3
<1>3. QED BY <1>1, <1>2 DEF WatchForEnd

LEMMA StopWatches ==
  ASSUME MovieOK, Stop
  PROVE  MovieOK'
<1>0. pos' \in 0..Length
  BY AudioAssumption DEF Stop
<1>1. MovieTypes'
  BY <1>0, Zenon DEF MovieOK, MovieTypes, Stop
<1>2. WatchedInTime'
  BY DEF Stop, WatchedInTime, MovieRuns
<1>3. QED BY <1>1, <1>2 DEF MovieOK

LEMMA SkipWatches ==
  ASSUME MovieOK, NEW t \in Tracks \cup {Nil}, Skip(t)
  PROVE  MovieOK'
<1>1. playlist \in Playlists \cup {Nil}
  BY DEF MovieOK, MovieTypes
<1>2. QED BY <1>1, PlayWatches, StopWatches DEF Skip

LEMMA StartWatches ==
  ASSUME MovieOK, ViewTypes, StartSelected
  PROVE  MovieOK'
<1>1. shown \in Playlists \cup {Nil}
  BY DEF ViewTypes
<1>2. \A i \in 1..Len(visible) : visible[i] \in Tracks
  BY DEF ViewTypes
<1>3. CASE PlaySelected
  BY <1>1, <1>2, <1>3, PlayWatches DEF PlaySelected, PlayAndUpdate
<1>4. CASE PlayAndUpdate(Nil, shown)
  BY <1>1, <1>4, PlayWatches DEF PlayAndUpdate
<1>5. QED BY <1>3, <1>4 DEF StartSelected

\* What leaves the movie and its timer alone, or stops the movie.
LEMMA RestWatches ==
  ASSUME MovieOK, UNCHANGED <<movieVars, pos, due>>,
         playing' = playing \/ playing' = FALSE
  PROVE  MovieOK'
<1>0. playing \in BOOLEAN
  BY DEF MovieOK, MovieTypes
<1>1. playing' \in BOOLEAN /\ (playing' => playing)
  <2>1. CASE playing' = playing
    BY <1>0, <2>1
  <2>2. CASE playing' = FALSE
    BY <2>2
  <2>3. QED BY <2>1, <2>2
<1>2. MovieTypes'
  BY <1>1 DEF MovieOK, MovieTypes, movieVars
<1>3. WatchedInTime'
  BY <1>1 DEF MovieOK, WatchedInTime, MovieRuns, movieVars
<1>4. QED BY <1>2, <1>3 DEF MovieOK

\* The position and the timer go on together.
LEMMA TickWatches ==
  ASSUME MovieOK, Tick
  PROVE  MovieOK'
<1>1. pos \in 0..Length /\ due \in Timers
  BY DEF MovieOK, MovieTypes
<1>2. pos' \in 0..Length
  BY <1>1, AudioAssumption DEF Tick, MovieRuns
<1>3. due' \in Timers
  <2>1. CASE TimerRuns
    <3>0. NoTimer \notin Nat /\ NaN \notin Nat
      BY AudioAssumption
    <3>1. due \in 1..Length
      BY <1>1, <2>1, <3>0, AudioAssumption DEF TimerRuns, Timers
    <3>2. due' = due - 1
      BY <2>1 DEF Tick
    <3>3. due' \in 0..Length
      BY <3>1, <3>2, AudioAssumption
    <3>4. QED BY <3>3 DEF Timers
  <2>2. CASE ~TimerRuns
    BY <1>1, <2>2 DEF Tick
  <2>3. QED BY <2>1, <2>2
<1>4. MovieTypes'
  BY <1>2, <1>3, Zenon DEF MovieOK, MovieTypes, Tick, movieVars
<1>5. ASSUME MovieRuns'
      PROVE  due' \in 0..(Length - pos')
  <2>1. playing /\ movie /\ pos' < Length
    BY <1>5, Zenon DEF MovieRuns, Tick, movieVars
  <2>2. pos < Length
    <3>1. CASE MovieRuns
      BY <3>1 DEF MovieRuns
    <3>2. CASE ~MovieRuns
      BY <2>1, <3>2 DEF Tick
    <3>3. QED BY <3>1, <3>2
  <2>3. MovieRuns
    BY <2>1, <2>2 DEF MovieRuns
  <2>4. pos' = pos + 1 /\ due \in 0..(Length - pos)
    BY <2>3 DEF Tick, MovieOK, WatchedInTime
  <2>5. due' = IF due # 0 THEN due - 1 ELSE due
    BY <2>4, <1>1, AudioAssumption DEF Tick, TimerRuns
  <2>6. QED BY <1>1, <2>2, <2>4, <2>5, AudioAssumption
<1>6. QED BY <1>4, <1>5 DEF MovieOK, WatchedInTime

-----------------------------------------------------------------------------
(* Each action, and the movie.                                             *)

LEMMA UserWatches ==
  ASSUME MovieOK, ViewTypes, User
  PROVE  MovieOK'
<1>0. /\ pos \in 0..Length /\ due \in Timers /\ playing \in BOOLEAN /\ TRUE \in BOOLEAN
      /\ track \in Tracks \cup {Nil}
  BY DEF MovieOK, MovieTypes
<1>1. ASSUME NEW button \in BOOLEAN, TogglePlaying(button)
      PROVE  MovieOK'
  <2>1. CASE Continue
    BY <1>0, <2>1, WatchWatches DEF Continue
  <2>2. CASE Stop
    BY <2>2, StopWatches
  <2>3. CASE StartSelected
    BY <2>3, StartWatches
  <2>4. CASE Pause
    BY <2>4, RestWatches DEF Pause
  <2>5. QED BY <1>1, <2>1, <2>2, <2>3, <2>4 DEF TogglePlaying
<1>2. CASE PlaySelectedSong
  BY <1>2, StartWatches DEF PlaySelectedSong, StartSelected
<1>3. CASE Forward
  BY <1>3, Neighbours, SkipWatches DEF Forward
<1>4. CASE Back
  <2>1. CASE Skip(PreviousTrack)
    BY <2>1, Neighbours, SkipWatches
  <2>2. CASE Play(track, playlist)
    <3>1. playlist \in Playlists \cup {Nil}
      BY DEF MovieOK, MovieTypes
    <3>2. QED BY <1>0, <2>2, <3>1, PlayWatches
  <2>3. QED BY <1>4, <2>1, <2>2 DEF Back
<1>5. CASE SearchOrSort
  BY <1>5, RestWatches DEF SearchOrSort
<1>6. ASSUME NEW x \in 0..Length, SetProgress(x)
      PROVE  MovieOK'
  <2>1. (IF movie THEN x ELSE pos) \in 0..Length
    BY <1>0
  <2>2. QED BY <1>0, <1>6, <2>1, WatchWatches DEF SetProgress
<1>7. ASSUME NEW p \in Playlists \cup {Nil}, SelectPlaylist(p)
      PROVE  MovieOK'
  BY <1>7, RestWatches DEF SelectPlaylist
<1>8. QED BY <1>1, <1>2, <1>3, <1>4, <1>5, <1>6, <1>7 DEF User

LEMMA FireWatches ==
  ASSUME MovieOK, ViewTypes, Fire
  PROVE  MovieOK'
<1>1. pos \in 0..Length /\ playing \in BOOLEAN /\ NoTimer \in Timers
  BY DEF MovieOK, MovieTypes, Timers
<1>2. QED BY <1>1, WatchWatches DEF Fire

-----------------------------------------------------------------------------
(* Each action, and the list.                                              *)

\* Nothing starts but from the table, or goes on but from the list.
PlaysOn ==
  \/ UNCHANGED <<track, playlist>>
  \/ track' = Nil /\ playlist' \in {playlist, Nil}
  \/ track # Nil /\ playlist' = playlist /\ \E i \in DOMAIN list : list[i] = track'

KeepsList == UNCHANGED <<list, viewVars>> /\ PlaysOn

LEMMA KeepsFollows ==
  ASSUME ViewOK, KeepsList, acts' \in 0..MaxActions
  PROVE  ViewOK'
<1>1. ViewTypes'
  BY DEF ViewOK, ViewTypes, KeepsList, PlaysOn, viewVars
<1>2. ShowsViews'
  BY DEF ViewOK, ShowsViews, KeepsList, viewVars
<1>3. FollowsPlaylist'
  <2>0. UNCHANGED list /\ UNCHANGED viewVars /\ FollowsPlaylist
    BY DEF ViewOK, KeepsList
  <2>1. CASE UNCHANGED <<track, playlist>>
    BY <2>0, <2>1 DEF FollowsPlaylist, Holds, viewVars
  <2>2. CASE track' = Nil /\ playlist' \in {playlist, Nil}
    BY <2>0, <2>2 DEF FollowsPlaylist, viewVars
  <2>3. CASE track # Nil /\ playlist' = playlist /\ \E i \in DOMAIN list : list[i] = track'
    <3>1. playlist # Nil /\ list \in Views[playlist]
      BY <2>0, <2>3 DEF FollowsPlaylist
    <3>2. Holds(playlist', track')
      BY <2>3, <3>1 DEF Holds
    <3>3. QED BY <2>0, <2>3, <3>1, <3>2 DEF FollowsPlaylist, viewVars
  <2>4. QED BY <2>1, <2>2, <2>3 DEF KeepsList, PlaysOn
<1>4. QED BY <1>1, <1>2, <1>3 DEF ViewOK

\* The track before and the one after stand in the list, as does the playing one.
LEMMA NeighboursInList ==
  ASSUME ViewTypes
  PROVE  \A t \in {NextTrack, PreviousTrack} :
           t # Nil => track # Nil /\ \E i \in DOMAIN list : list[i] = t
<1>0. /\ \A i \in DOMAIN list : IsPlace(i) => track # Nil
      /\ list \in Seq(Tracks)
  BY AudioAssumption DEF IsPlace, ViewTypes
<1>1. NextTrack # Nil => track # Nil /\ \E i \in DOMAIN list : list[i] = NextTrack
  <2> DEFINE places == {i \in 1..(Len(list) - 1) : IsPlace(i)}
             place == CHOOSE i \in places : TRUE
  <2> SUFFICES ASSUME NextTrack # Nil
      PROVE  track # Nil /\ \E i \in DOMAIN list : list[i] = NextTrack
    OBVIOUS
  <2>1. places # {} /\ NextTrack = list[place + 1]
    BY DEF NextTrack
  <2>2. place \in places
    BY <2>1, Zenon
  <2>3. place \in DOMAIN list /\ place + 1 \in DOMAIN list /\ IsPlace(place)
    BY <1>0, <2>2
  <2>4. QED BY <1>0, <2>1, <2>3
<1>2. PreviousTrack # Nil => track # Nil /\ \E i \in DOMAIN list : list[i] = PreviousTrack
  <2> DEFINE places == {i \in 2..Len(list) : IsPlace(i)}
             place == CHOOSE i \in places : TRUE
  <2> SUFFICES ASSUME PreviousTrack # Nil
      PROVE  track # Nil /\ \E i \in DOMAIN list : list[i] = PreviousTrack
    OBVIOUS
  <2>1. places # {} /\ PreviousTrack = list[place - 1]
    BY DEF PreviousTrack
  <2>2. place \in places
    BY <2>1, Zenon
  <2>3. place \in DOMAIN list /\ place - 1 \in DOMAIN list /\ IsPlace(place)
    BY <1>0, <2>2
  <2>4. QED BY <1>0, <2>1, <2>3
<1>3. QED BY <1>1, <1>2

LEMMA WatchKeeps ==
  ASSUME ViewTypes, NEW x, NEW on, NEW timer, WatchForEnd(x, on, timer)
  PROVE  PlaysOn
  BY NeighboursInList DEF WatchForEnd, Play, PlaysOn, movieVars

LEMMA SkipKeeps ==
  ASSUME ViewTypes, NEW t \in {track, NextTrack, PreviousTrack}, Skip(t)
  PROVE  UNCHANGED list /\ PlaysOn
  BY NeighboursInList DEF Skip, Play, Stop, PlaysOn

LEMMA StartFollows ==
  ASSUME ViewOK, StartSelected, UNCHANGED viewVars, acts' \in 0..MaxActions
  PROVE  ViewOK'
<1>1. playlist' = shown /\ list' = visible
  BY DEF StartSelected, PlaySelected, PlayAndUpdate, Play, UpdateTrackList
<1>2. ViewTypes'
  BY <1>1 DEF ViewOK, ViewTypes, viewVars
<1>3. track' # Nil => shown # Nil /\ Holds(shown, track')
  <2>1. CASE PlaySelected
    <3>1. PICK i \in 1..Len(visible) : track' = visible[i]
      BY <2>1 DEF PlaySelected, PlayAndUpdate, Play
    <3>2. shown # Nil /\ visible \in Views[shown] /\ i \in DOMAIN visible
      BY DEF ViewOK, ViewTypes, ShowsViews
    <3>3. QED BY <3>1, <3>2 DEF Holds
  <2>2. CASE PlayAndUpdate(Nil, shown)
    BY <2>2 DEF PlayAndUpdate, Play
  <2>3. QED BY <2>1, <2>2 DEF StartSelected
<1>4. ShowsViews' /\ FollowsPlaylist'
  BY <1>1, <1>3 DEF ViewOK, ShowsViews, FollowsPlaylist, Holds, viewVars
<1>5. QED BY <1>2, <1>4 DEF ViewOK

\* The table shows something else, and the list changes with it, or keeps.
LEMMA ShowFollows ==
  ASSUME ViewOK, acts' \in 0..MaxActions, UNCHANGED <<track, playlist>>, playlist \in Playlists \cup {Nil},
         shown' \in Playlists \cup {Nil},
         shown' = Nil => visible' = << >>,
         shown' # Nil => visible' \in Views[shown'],
         UpdateTrackList(playlist, shown', visible')
  PROVE  ViewOK'
<1>0. shown' # Nil => Views[shown'] \subseteq Seq(Tracks)
  BY AudioAssumption
<1>1. visible' \in Seq(Tracks)
  <2>1. << >> \in Seq(Tracks)
    OBVIOUS
  <2>2. CASE shown' = Nil
    BY <2>1, <2>2
  <2>3. CASE shown' # Nil
    BY <1>0, <2>3
  <2>4. QED BY <2>2, <2>3
<1>2. ViewTypes'
  BY <1>1 DEF ViewOK, ViewTypes, UpdateTrackList
<1>3. ShowsViews'
  BY DEF ShowsViews
<1>4. FollowsPlaylist'
  BY DEF ViewOK, FollowsPlaylist, Holds, UpdateTrackList
<1>5. QED BY <1>2, <1>3, <1>4 DEF ViewOK

LEMMA UserFollows ==
  ASSUME MovieOK, ViewOK, User
  PROVE  ViewOK'
<1>0. acts \in 0..MaxActions /\ shown \in Playlists \cup {Nil}
      /\ playlist \in Playlists \cup {Nil}
  BY DEF ViewOK, ViewTypes, MovieOK, MovieTypes
<1>a. Acts => acts' \in 0..MaxActions
  BY <1>0, AudioAssumption DEF Acts
<1>1. ASSUME NEW button \in BOOLEAN, TogglePlaying(button)
      PROVE  ViewOK'
  <2>0. acts' \in 0..MaxActions /\ UNCHANGED viewVars
    BY <1>1, <1>a DEF TogglePlaying
  <2>1. CASE Continue \/ Stop \/ Pause
    <3>1. KeepsList
      BY <2>0, <2>1, WatchKeeps DEF Continue, Stop, Pause, KeepsList, PlaysOn, ViewOK,
           movieVars
    <3>2. QED BY <2>0, <3>1, KeepsFollows
  <2>2. CASE StartSelected
    BY <2>0, <2>2, StartFollows
  <2>3. QED BY <1>1, <2>1, <2>2 DEF TogglePlaying
<1>2. CASE PlaySelectedSong
  BY <1>2, <1>a, StartFollows DEF PlaySelectedSong, StartSelected
<1>3. CASE Forward \/ Back
  <2>1. Play(track, playlist) => PlaysOn
    BY DEF Play, PlaysOn
  <2>2. PlaysOn /\ UNCHANGED list
    BY <1>3, <2>1, SkipKeeps DEF Forward, Back, ViewOK
  <2>3. KeepsList /\ acts' \in 0..MaxActions
    BY <1>3, <1>a, <2>2 DEF Forward, Back, KeepsList
  <2>4. QED BY <2>3, KeepsFollows
<1>4. ASSUME NEW x \in 0..Length, SetProgress(x)
      PROVE  ViewOK'
  <2>1. KeepsList /\ acts' \in 0..MaxActions
    BY <1>4, <1>a, WatchKeeps DEF SetProgress, KeepsList, ViewOK
  <2>2. QED BY <2>1, KeepsFollows
<1>5. CASE SearchOrSort
  BY <1>0, <1>5, <1>a, ShowFollows DEF SearchOrSort, movieVars
<1>6. ASSUME NEW p \in Playlists \cup {Nil}, SelectPlaylist(p)
      PROVE  ViewOK'
  BY <1>0, <1>6, <1>a, ShowFollows DEF SelectPlaylist, movieVars
<1>7. QED BY <1>1, <1>2, <1>3, <1>4, <1>5, <1>6 DEF User

LEMMA TimeFollows ==
  ASSUME ViewOK, Tick \/ Fire
  PROVE  ViewOK'
<1>1. KeepsList /\ acts' = acts
  BY WatchKeeps DEF Tick, Fire, KeepsList, PlaysOn, ViewOK, movieVars
<1>2. QED BY <1>1, KeepsFollows DEF ViewOK, ViewTypes

-----------------------------------------------------------------------------
(* The theorems.                                                           *)

LEMMA AudioInit == Init => AudioInv
<1> SUFFICES ASSUME Init PROVE AudioInv
  OBVIOUS
<1>0. pos \in 0..Length /\ acts \in 0..MaxActions
  BY AudioAssumption DEF Init
<1>1. list \in Seq(Tracks) /\ visible \in Seq(Tracks)
  BY DEF Init
<1>2. TypeOK
  BY <1>0, <1>1, Zenon DEF Init, TypeOK, Timers
<1>3. ShowsViews /\ WatchedInTime /\ FollowsPlaylist
  BY DEF Init, ShowsViews, WatchedInTime, MovieRuns, FollowsPlaylist
<1>4. QED BY <1>2, <1>3 DEF AudioInv

LEMMA AudioNext == AudioInv /\ [Next]_vars => AudioInv'
<1> SUFFICES ASSUME AudioInv, [Next]_vars PROVE AudioInv'
  OBVIOUS
<1>1. MovieOK /\ ViewOK /\ ViewTypes
  BY InvParts DEF ViewOK
<1>2. CASE Next
  <2>1. MovieOK'
    BY <1>1, <1>2, UserWatches, TickWatches, FireWatches DEF Next
  <2>2. ViewOK'
    BY <1>1, <1>2, UserFollows, TimeFollows DEF Next
  <2>3. AudioInv' <=> MovieOK' /\ ViewOK'
    BY DEF AudioInv, MovieOK, ViewOK, TypeOK, MovieTypes, ViewTypes
  <2>4. QED BY <2>1, <2>2, <2>3
<1>3. CASE UNCHANGED vars
  BY <1>3 DEF vars, movieVars, viewVars, AudioInv, TypeOK, ShowsViews, WatchedInTime,
              MovieRuns, FollowsPlaylist, Holds
<1>4. QED BY <1>2, <1>3

\* Types, timer and list, throughout.
THEOREM AudioHolds == Spec => []AudioInv
  BY AudioInit, AudioNext, PTL DEF Spec

\* However long a track is and whatever the user does, a movie that plays has
\* a timer that fires before it ends (SEAudioController.m:277).
THEOREM AlwaysWatched == Spec => []WatchedInTime
<1>1. AudioInv => WatchedInTime
  BY DEF AudioInv
<1>2. QED BY <1>1, AudioHolds, PTL

\* Whatever playlists the table has shown since, and however the track was come
\* to, it and the tracks to come are those of the playing playlist
\* (SEAudioController.m:103).
THEOREM ListFollows == Spec => []FollowsPlaylist
<1>1. AudioInv => FollowsPlaylist
  BY DEF AudioInv
<1>2. QED BY <1>1, AudioHolds, PTL
=============================================================================
