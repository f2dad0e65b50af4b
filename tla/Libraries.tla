------------------------------ MODULE Libraries ------------------------------
(***************************************************************************)
(* SELibraryController (src/Source/SELibraryController.m): volumes come    *)
(* and go, threads of SELibraryFetcher read the iPod libraries on them,    *)
(* and the main thread shows the libraries and has each cross-referenced   *)
(* with the others.                                                        *)
(*                                                                         *)
(* The main thread gets its work from two sources that are not ordered     *)
(* with each other: the notifications of the workspace, and what the       *)
(* fetchers have posted with performSelectorOnMainThread:.  A mobile       *)
(* device goes the same way as a volume, but it is only announced, never   *)
(* listed at the launch, and ejecting it takes its library away at once    *)
(* and leaves the device where it is.                                      *)
(***************************************************************************)
EXTENDS Naturals, Sequences, FiniteSets, SequencesExt

CONSTANTS
  Volumes,   \* the volumes that may be mounted
  IPods,     \* those with an iPod library that can be read
  Mobiles,   \* those that are mobile devices
  ITunes,    \* the iTunes library
  MaxPlugs,  \* bound: how often a volume is mounted after the launch
  Nil        \* no fetcher

ASSUME LibrariesAssumption ==
  /\ IsFiniteSet(Volumes)
  /\ IPods \subseteq Volumes
  /\ Mobiles \subseteq Volumes
  /\ MaxPlugs \in Nat
  /\ Nil \notin Nat

VARIABLES
  mounted,        \* the volumes that are mounted
  plugs,          \* how often one has been announced
  notices,        \* the workspace notifications not yet served
  mail,           \* the posts of the fetchers not yet served
  fetchers,       \* how many fetchers have been made for iPods
  at,             \* per fetcher: where its thread is
  canAddObjects,  \* per fetcher
  objects,        \* per fetcher: the mounts it has still to look at
  chunk,          \* per fetcher: those it has taken, from the one at hand on
  fetcher,        \* the controller's iPodLibraryFetcher, or Nil
  iPodLibraries,  \* the libraries shown
  iTunesLibrary,  \* "reading", "posted", "empty" or "loaded"
  hasIPods,
  crossed,        \* history: the pairs handed to a cross referencer
  ejected         \* history: the devices ejected since they were plugged in

worldVars == <<mounted, plugs>>
threadVars == <<at, chunk>>
fetcherVars == <<fetchers, canAddObjects, objects>>
shownVars == <<iPodLibraries, iTunesLibrary, hasIPods, crossed, ejected>>
vars == <<worldVars, notices, mail, threadVars, fetcherVars, fetcher, shownVars>>

\* One fetcher is made at the launch, and at most one for each mount.
Fetchers == 0..MaxPlugs

\* A volume and the mount it was announced with; the library read then is a
\* library object of its own.
Mounts == Volumes \X (0..MaxPlugs)
Notices == {"mount", "unmount"} \X Mounts
Posts == {"library"} \X Fetchers \X Mounts \cup {"finished"} \X Fetchers \cup {<<"iTunes">>}
Pairs == {{k, l} : k, l \in Mounts \cup {ITunes}}

TypeOK ==
  /\ mounted \subseteq Volumes
  /\ plugs \in 0..MaxPlugs
  /\ notices \in Seq(Notices)
  /\ mail \in Seq(Posts)
  /\ fetchers \in 1..(MaxPlugs + 1)
  /\ at \in [Fetchers -> {"unused", "loop", "read", "post", "finish", "ended"}]
  /\ canAddObjects \in [Fetchers -> BOOLEAN]
  /\ objects \in [Fetchers -> Seq(Mounts)]
  /\ chunk \in [Fetchers -> Seq(Mounts)]
  /\ fetcher \in Fetchers \cup {Nil}
  /\ iPodLibraries \subseteq Mounts
  /\ iTunesLibrary \in {"reading", "posted", "empty", "loaded"}
  /\ hasIPods \in BOOLEAN
  /\ crossed \subseteq Pairs
  /\ ejected \subseteq Volumes
  /\ \A f \in Fetchers : at[f] = "post" => chunk[f] # <<>>

\* controllerDidLoad: a fetcher looks at what is mounted, another at iTunes.
\* What is mounted after the notices are asked for and before the volumes are
\* listed is announced as well.
Init ==
  /\ mounted \in SUBSET (Volumes \ Mobiles)
  /\ plugs \in 0..MaxPlugs
  /\ \E late \in [1..plugs -> mounted] :
       /\ IsInjective(late)
       /\ notices = [i \in 1..plugs |-> <<"mount", <<late[i], i>>>>]
  /\ mail = <<>>
  /\ fetchers = 1
  /\ at = [f \in Fetchers |-> IF f = 0 THEN "loop" ELSE "unused"]
  /\ canAddObjects = [f \in Fetchers |-> TRUE]
  /\ \E possible \in SetToSeqs(mounted \X {0}) :
       objects = [f \in Fetchers |-> IF f = 0 THEN possible ELSE <<>>]
  /\ chunk = [f \in Fetchers |-> <<>>]
  /\ fetcher = 0
  /\ iPodLibraries = {}
  /\ iTunesLibrary = "reading"
  /\ hasIPods = (mounted \cap IPods # {})
  /\ crossed = {}
  /\ ejected = {}

-----------------------------------------------------------------------------
(* The world.                                                              *)

Mount(v) ==
  /\ v \notin mounted
  /\ plugs < MaxPlugs
  /\ mounted' = mounted \cup {v}
  /\ plugs' = plugs + 1
  /\ notices' = Append(notices, <<"mount", <<v, plugs'>>>>)
  /\ ejected' = ejected \ {v}
  /\ UNCHANGED <<mail, threadVars, fetcherVars, fetcher, iPodLibraries, iTunesLibrary,
                 hasIPods, crossed>>

\* The user ejects the volume, here or elsewhere, or pulls it out.  A device
\* that was ejected may be pulled out as well.
Unmount(v) ==
  /\ v \in mounted
  /\ mounted' = mounted \ {v}
  /\ notices' = Append(notices, <<"unmount", <<v, plugs>>>>)
  /\ UNCHANGED <<plugs, mail, threadVars, fetcherVars, fetcher, shownVars>>

-----------------------------------------------------------------------------
(* The threads of the fetchers: fetchLibraries.                            *)

\* Under the lock: take what there is, or close.
TakeObjects(f) ==
  /\ at[f] = "loop"
  /\ chunk' = [chunk EXCEPT ![f] = objects[f]]
  /\ objects' = [objects EXCEPT ![f] = <<>>]
  /\ canAddObjects' = [canAddObjects EXCEPT ![f] = objects[f] # <<>>]
  /\ at' = [at EXCEPT ![f] = IF objects[f] = <<>> THEN "finish" ELSE "read"]
  /\ UNCHANGED <<worldVars, notices, mail, fetchers, fetcher, shownVars>>

\* The library is read from the volume, if it is there and holds one.
Read(f) ==
  /\ at[f] = "read"
  /\ chunk[f] # <<>>
  /\ LET v == Head(chunk[f])[1]
     IN IF v \in mounted \cap IPods
        THEN at' = [at EXCEPT ![f] = "post"] /\ UNCHANGED chunk
        ELSE chunk' = [chunk EXCEPT ![f] = Tail(@)] /\ UNCHANGED at
  /\ UNCHANGED <<worldVars, notices, mail, fetcherVars, fetcher, shownVars>>

PostLibrary(f) ==
  /\ at[f] = "post"
  /\ mail' = Append(mail, <<"library", f, Head(chunk[f])>>)
  /\ chunk' = [chunk EXCEPT ![f] = Tail(@)]
  /\ at' = [at EXCEPT ![f] = "read"]
  /\ UNCHANGED <<worldVars, notices, fetcherVars, fetcher, shownVars>>

NextChunk(f) ==
  /\ at[f] = "read"
  /\ chunk[f] = <<>>
  /\ at' = [at EXCEPT ![f] = "loop"]
  /\ UNCHANGED <<worldVars, notices, mail, chunk, fetcherVars, fetcher, shownVars>>

PostFinish(f) ==
  /\ at[f] = "finish"
  /\ mail' = Append(mail, <<"finished", f>>)
  /\ at' = [at EXCEPT ![f] = "ended"]
  /\ UNCHANGED <<worldVars, notices, chunk, fetcherVars, fetcher, shownVars>>

\* The fetcher for iTunes, which is never given another object.
FetchITunes ==
  /\ iTunesLibrary = "reading"
  /\ iTunesLibrary' = "posted"
  /\ mail' = Append(mail, <<"iTunes">>)
  /\ UNCHANGED <<worldVars, notices, threadVars, fetcherVars, fetcher, iPodLibraries,
                 hasIPods, crossed, ejected>>

-----------------------------------------------------------------------------
(* The main thread: what comes and goes.                                   *)

Notified(kind) ==
  /\ notices # <<>>
  /\ Head(notices)[1] = kind
  /\ notices' = Tail(notices)

\* addObjects: of the fetcher, which may be closed.
Added == fetcher # Nil /\ canAddObjects[fetcher]

\* Mutant: a fetcher that has closed is given the volume all the same.
IPodMountedLate ==
  /\ Notified("mount")
  /\ LET f == IF fetcher # Nil THEN fetcher ELSE fetchers
     IN /\ objects' = [objects EXCEPT ![f] = Append(@, Head(notices)[2])]
        /\ at' = [at EXCEPT ![f] = IF fetcher # Nil THEN @ ELSE "loop"]
        /\ fetcher' = f
        /\ fetchers' = IF fetcher # Nil THEN fetchers ELSE fetchers + 1
  /\ UNCHANGED <<worldVars, mail, canAddObjects, chunk, shownVars>>

\* Mutant: each volume is given a fetcher of its own.
IPodMountedAnew ==
  /\ Notified("mount")
  /\ objects' = [objects EXCEPT ![fetchers] = <<Head(notices)[2]>>]
  /\ at' = [at EXCEPT ![fetchers] = "loop"]
  /\ fetcher' = fetchers
  /\ fetchers' = fetchers + 1
  /\ UNCHANGED <<worldVars, mail, canAddObjects, chunk, shownVars>>

\* One that is closed, or none, is replaced by a new one.
IPodMounted ==
  /\ Notified("mount")
  /\ LET f == IF Added THEN fetcher ELSE fetchers
     IN /\ objects' = [objects EXCEPT ![f] = Append(@, Head(notices)[2])]
        /\ at' = [at EXCEPT ![f] = IF Added THEN @ ELSE "loop"]
        /\ fetcher' = f
        /\ fetchers' = IF Added THEN fetchers ELSE fetchers + 1
  /\ UNCHANGED <<worldVars, mail, canAddObjects, chunk, shownVars>>

RemoveIPod(l) ==
  /\ iPodLibraries' = iPodLibraries \ {l}
  /\ hasIPods' = (hasIPods /\ iPodLibraries' # {})

\* The first library found on the volume goes, if one is shown.
IPodRemoved ==
  /\ Notified("unmount")
  /\ LET found == {l \in iPodLibraries : l[1] = Head(notices)[2][1]}
     IN \/ found = {} /\ UNCHANGED <<iPodLibraries, hasIPods>>
        \/ \E l \in found : RemoveIPod(l)
  /\ UNCHANGED <<worldVars, mail, threadVars, fetcherVars, fetcher, iTunesLibrary, crossed,
                 ejected>>

\* The user ejects a mobile device that is shown; Unmount is for the others.
Eject ==
  /\ \E l \in iPodLibraries :
       /\ l[1] \in Mobiles
       /\ RemoveIPod(l)
       /\ ejected' = ejected \cup {l[1]}
  /\ UNCHANGED <<worldVars, notices, mail, threadVars, fetcherVars, fetcher, iTunesLibrary,
                 crossed>>

-----------------------------------------------------------------------------
(* The main thread: what the fetchers have posted.                         *)

Posted(kind) ==
  /\ mail # <<>>
  /\ Head(mail)[1] = kind
  /\ mail' = Tail(mail)

\* The libraries a new one is cross-referenced with.
ITunesIfLoaded == IF iTunesLibrary = "loaded" THEN {ITunes} ELSE {}
LibrariesIncludingITunes == iPodLibraries \cup ITunesIfLoaded

Cross(l, libraries) == crossed' = crossed \cup {{l, k} : k \in libraries}

\* Mutant: an iPod is cross-referenced with the other iPods only.
AddIPodAlone(l) ==
  /\ Cross(l, iPodLibraries)
  /\ iPodLibraries' = iPodLibraries \cup {l}
  /\ hasIPods' = TRUE

AddIPod(l) ==
  /\ Cross(l, LibrariesIncludingITunes)
  /\ iPodLibraries' = iPodLibraries \cup {l}
  /\ hasIPods' = TRUE

\* A library is taken from the current fetcher only.
DidFetchLibrary ==
  /\ Posted("library")
  /\ IF Head(mail)[2] = fetcher
     THEN AddIPod(Head(mail)[3])
     ELSE UNCHANGED <<iPodLibraries, hasIPods, crossed>>
  /\ UNCHANGED <<worldVars, notices, threadVars, fetcherVars, fetcher, iTunesLibrary, ejected>>

\* The library of iTunes is there, with or without contents.
DidFetchITunes ==
  /\ Posted("iTunes")
  /\ iTunesLibrary' \in {"empty", "loaded"}
  /\ Cross(ITunes, iPodLibraries)
  /\ UNCHANGED <<worldVars, notices, threadVars, fetcherVars, fetcher, iPodLibraries,
                 hasIPods, ejected>>

\* Mutant: whichever fetcher finishes, the current one is let go.
ForgetFetcher ==
  /\ Posted("finished")
  /\ fetcher' = Nil
  /\ UNCHANGED <<worldVars, notices, threadVars, fetcherVars, shownVars>>

FetcherDidFinish ==
  /\ Posted("finished")
  /\ fetcher' = IF Head(mail)[2] = fetcher THEN Nil ELSE fetcher
  /\ UNCHANGED <<worldVars, notices, threadVars, fetcherVars, shownVars>>

-----------------------------------------------------------------------------
World == \E v \in Volumes : Mount(v) \/ Unmount(v)

Fetch(f) ==
  TakeObjects(f) \/ Read(f) \/ PostLibrary(f) \/ NextChunk(f) \/ PostFinish(f)

ServeNotice == IPodMounted \/ IPodRemoved

ServePost == DidFetchLibrary \/ DidFetchITunes \/ FetcherDidFinish

Next ==
  \/ World
  \/ \E f \in Fetchers : Fetch(f)
  \/ FetchITunes
  \/ ServeNotice \/ ServePost \/ Eject

Spec == Init /\ [][Next]_vars

\* The threads are scheduled, and the main thread serves both of its sources.
FairSpec ==
  /\ Spec
  /\ \A f \in Fetchers : WF_vars(Fetch(f))
  /\ WF_vars(FetchITunes)
  /\ WF_vars(ServeNotice)
  /\ WF_vars(ServePost)

-----------------------------------------------------------------------------
(* Safety.                                                                 *)

\* "returns whether the objects were actually added or not"
\* (SELibraryController.m:519): what a fetcher has accepted it looks at; none
\* is left behind by the thread that was about to close.
NoneLeftBehind == \A f \in Fetchers : at[f] \in {"finish", "ended"} => objects[f] = <<>>

\* The newest fetcher is listened to until its last post has been served,
\* whatever the ones before it still post.
Newest == fetchers - 1
NewestHeard ==
  at[Newest] # "ended" \/ (\E i \in DOMAIN mail : mail[i] = <<"finished", Newest>>)
  => fetcher = Newest

\* Whatever the order in which libraries are loaded, every two that are shown
\* have been handed to a cross referencer.
EveryPairCrossed ==
  \A k, l \in LibrariesIncludingITunes : k # l => {k, l} \in crossed

Settled ==
  notices = <<>> /\ mail = <<>> /\ \A f \in Fetchers : at[f] \in {"unused", "ended"}

\* As long as the first fetcher has not been replaced, every iPod that is
\* mounted and has not been ejected is shown when all has been served, however
\* the volumes have come and gone and whichever of their notifications were
\* served late.
FirstFetcherShowsAll ==
  Settled /\ fetchers = 1
  => \A v \in (mounted \cap IPods) \ ejected : \E l \in iPodLibraries : l[1] = v

\* The mounts named in the entries of a kind.
Named(queue, kind, place) ==
  {queue[i][place] : i \in {j \in DOMAIN queue : queue[j][1] = kind}}

Accepted == UNION {Range(objects[f]) \cup Range(chunk[f]) : f \in Fetchers}
AtHand == {Head(chunk[f]) : f \in {g \in Fetchers : at[g] = "post"}}

\* Those that have still to be looked at, wherever they are.
Waiting == (Named(notices, "mount", 2) \cup Accepted) \ AtHand

Reading == INSTANCE VolumeReading WITH
             waiting <- Waiting,
             hand <- AtHand,
             posted <- Named(mail, "library", 3),
             shown <- iPodLibraries

\* However many fetchers are made, replaced and late, together they look at each
\* mount once, in order, one at a time, and no library is served twice
\* (SELibraryController.m:211-218, 268-271, 483-506).
RefinesReading == Reading!Spec

(* Liveness.                                                               *)

\* A volume that is listed or announced is looked at, whichever fetcher it comes
\* to: it is no longer waiting, and it stops waiting by being looked at only
\* (RefinesReading).
EveryMountLookedAt == \A m \in Mounts : m \in Waiting ~> m \notin Waiting

(* What a comment says and the code does not do.                           *)

\* "During normal operation, this will be updated when the iPod has been fully
\* loaded" (SELibraryController.h:40-46): when all has been served and an iPod
\* is mounted, hasIPods says so.  A library whose fetcher has been replaced
\* before its post is served is dropped. No run has this property: it
\* fails once a second fetcher is made, as the README says.
HasIPodsWhenLoaded == Settled /\ (mounted \cap IPods) \ ejected # {} => hasIPods
=============================================================================
