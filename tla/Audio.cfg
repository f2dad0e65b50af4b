SPECIFICATION FairSpec
CONSTANTS
  a = a
  b = b
  c = c
  p = p
  q = q
  Tracks <- MCTracks
  Playlists <- MCPlaylists
  Views <- MCViews
  Length = 4
  Early = 2
  MaxActions = 8
  Nil = Nil
  NoTimer = NoTimer
  NaN = NaN
CHECK_DEADLOCK FALSE
INVARIANTS WatchedInTime FollowsPlaylist
PROPERTY PlaysToTheEnd
