---------------------------- MODULE TrackCopying ----------------------------
(***************************************************************************)
(* What the copying of tracks promises the user who asks for it            *)
(* (SECopyController): each track is copied and added to the iTunes        *)
(* library in the order in which it was asked for, at most once, either as *)
(* a song of its own, once its file is there, or as a reference to a song  *)
(* of the same origin that is in the library already.  Copying may be      *)
(* stopped at any time; what is in the library then stays as it is.        *)
(***************************************************************************)
EXTENDS Naturals, Sequences

CONSTANTS
  Batches,     \* the arrays of tracks that may be asked for at once
  Wanted,      \* the tracks that are to be in the library
  Origin,      \* per track: the track on the iPod that it is a copy of
  Nil          \* no track

VARIABLES
  asked,       \* the tracks asked for
  line,        \* those still to be added, the first one first
  turn,        \* the track being added, or Nil
  files,       \* the tracks whose file has been copied
  songs,       \* per track: how often it has been added as a song
  references   \* the tracks that have been added as a reference

vars == <<asked, line, turn, files, songs, references>>

Tracks == DOMAIN Origin

Init ==
  /\ asked = {}
  /\ line = <<>>
  /\ turn = Nil
  /\ files = {}
  /\ songs = [t \in Tracks |-> 0]
  /\ references = {}

Settled(t) == songs[t] > 0 \/ t \in references

Ask(batch) ==
  /\ \A i, j \in DOMAIN batch : batch[i] = batch[j] => i = j
  /\ \A i \in DOMAIN batch : batch[i] \notin asked
  /\ asked' = asked \cup {batch[i] : i \in DOMAIN batch}
  /\ line' = line \o batch
  /\ UNCHANGED <<turn, files, songs, references>>

CopyFile(t) ==
  /\ t \in asked \ files
  /\ files' = files \cup {t}
  /\ UNCHANGED <<asked, line, turn, songs, references>>

Begin ==
  /\ turn = Nil
  /\ line # <<>>
  /\ turn' = Head(line)
  /\ line' = Tail(line)
  /\ UNCHANGED <<asked, files, songs, references>>

AddSong ==
  /\ turn \in files \cap Wanted
  /\ ~Settled(turn)
  /\ songs' = [songs EXCEPT ![turn] = 1]
  /\ UNCHANGED <<asked, line, turn, files, references>>

AddReference ==
  /\ turn \in Wanted
  /\ ~Settled(turn)
  /\ \E s \in Tracks : Origin[s] = Origin[turn] /\ songs[s] > 0
  /\ references' = references \cup {turn}
  /\ UNCHANGED <<asked, line, turn, files, songs>>

\* The track is through, whether it is in the library or not.
Leave ==
  /\ turn # Nil
  /\ turn' = Nil
  /\ UNCHANGED <<asked, line, files, songs, references>>

\* iTunes did not answer: the track is the next one again.
PutBack ==
  /\ turn # Nil
  /\ ~Settled(turn)
  /\ turn' = Nil
  /\ line' = <<turn>> \o line
  /\ UNCHANGED <<asked, files, songs, references>>

\* Of the tracks that wait, those asked for last may just be on their way.
Stop ==
  /\ \E first \in 1..(Len(line) + 1) : line' = SubSeq(line, first, Len(line))
  /\ UNCHANGED <<asked, turn, files, songs, references>>

Next ==
  \/ \E batch \in Batches : Ask(batch)
  \/ \E t \in Tracks : CopyFile(t)
  \/ Begin \/ AddSong \/ AddReference \/ Leave \/ PutBack \/ Stop

Spec == Init /\ [][Next]_vars
=============================================================================
