------------------------------- MODULE MCAudio -------------------------------
(* Two playlists that share a track, which one of them holds twice.        *)
EXTENDS Audio, FiniteSets

CONSTANTS a, b, c, p, q

\* What the table may show of the tracks s: some of them, in any order.
Arrangements(s) ==
  LET orders == UNION {[1..n -> DOMAIN s] : n \in 0..Len(s)}
  IN  {[i \in DOMAIN f |-> s[f[i]]] :
         f \in {g \in orders : \A i, j \in DOMAIN g : g[i] = g[j] => i = j}}

MCTracks == {a, b, c}
MCPlaylists == {p, q}
MCViews == [l \in MCPlaylists |-> Arrangements(IF l = p THEN <<a, b>> ELSE <<a, c, a>>)]
=============================================================================
