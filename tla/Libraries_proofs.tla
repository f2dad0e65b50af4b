-------------------------- MODULE Libraries_proofs --------------------------
(***************************************************************************)
(* For any set of volumes and any number of mounts: the types, that no     *)
(* volume is left behind by a fetcher that closes, that the newest fetcher *)
(* is heard, that every two libraries are crossed, that the first fetcher  *)
(* has all shown, and that the fetchers together read each mount once and  *)
(* in order.  LibInv has what these rest on: a fetcher that has not been   *)
(* made does nothing, one that closes takes nothing more, posts its end    *)
(* once, and each mount makes one fetcher at most.                         *)
(***************************************************************************)
EXTENDS Libraries, SequenceTheorems, FiniteSetTheorems, TLAPS

\* A fetcher that has not been made has no thread.
Unmade == \A f \in Fetchers : f >= fetchers => at[f] = "unused"

\* One that closes has nothing, and takes nothing more.
Closed ==
  \A f \in Fetchers : at[f] \in {"finish", "ended"} => objects[f] = <<>> /\ ~canAddObjects[f]

\* The end of a fetcher is posted at its end, once.
IsEnd(i) == mail[i][1] = "finished"
EndsPosted == \A i \in DOMAIN mail : IsEnd(i) => at[mail[i][2]] = "ended"
EndsOnce == \A i, j \in DOMAIN mail : IsEnd(i) /\ mail[j] = mail[i] => i = j

\* Mounts are announced in their order, and before the mount announced next
\* there are no more fetchers than mounts.
IsMount(i) == notices[i][1] = "mount"
Plug(i) == notices[i][2][2]
MountsInOrder ==
  /\ fetchers <= plugs + 1
  /\ \A i \in DOMAIN notices : IsMount(i) => fetchers <= Plug(i) /\ Plug(i) <= plugs
  /\ \A i, j \in DOMAIN notices : IsMount(i) /\ IsMount(j) /\ i < j => Plug(i) < Plug(j)

LibInv ==
  /\ TypeOK /\ Unmade /\ Closed /\ EndsPosted /\ EndsOnce /\ MountsInOrder
  /\ NewestHeard

-----------------------------------------------------------------------------
(* The queues of the main thread.                                          *)

\* What comes after a queue is served.
LEMMA ServedQueue ==
  ASSUME NEW S, NEW q \in Seq(S), q # <<>>
  PROVE  /\ Head(q) = q[1] /\ Head(q) \in S /\ 1 \in DOMAIN q
         /\ Tail(q) \in Seq(S)
         /\ \A i \in DOMAIN Tail(q) : i + 1 \in DOMAIN q /\ Tail(q)[i] = q[i + 1]
         /\ DOMAIN Tail(q) \subseteq Nat \ {0} /\ DOMAIN q \subseteq Nat \ {0}
<1>1. Head(q) = q[1]
  OBVIOUS
<1>2. DOMAIN q = 1..Len(q) /\ Len(q) \in Nat \ {0}
  BY LenProperties, EmptySeq
<1>3. Tail(q) \in Seq(S) /\ Len(Tail(q)) = Len(q) - 1 /\ Head(q) \in S
  BY HeadTailProperties
<1>4. DOMAIN Tail(q) = 1..(Len(q) - 1)
  BY <1>3, LenProperties
<1>5. \A i \in 1..(Len(q) - 1) : Tail(q)[i] = q[i + 1]
  BY <1>3, HeadTailProperties
<1>6. QED
  BY <1>1, <1>2, <1>3, <1>4, <1>5

\* What comes after something is posted.
LEMMA PostedQueue ==
  ASSUME NEW S, NEW q \in Seq(S), NEW e \in S
  PROVE  /\ Append(q, e) \in Seq(S)
         /\ DOMAIN Append(q, e) = DOMAIN q \cup {Len(q) + 1}
         /\ Append(q, e)[Len(q) + 1] = e
         /\ \A i \in DOMAIN q : Append(q, e)[i] = q[i] /\ i < Len(q) + 1
         /\ Len(q) + 1 \notin DOMAIN q /\ Len(q) \in Nat
         /\ DOMAIN q \subseteq Nat
<1>1. DOMAIN q = 1..Len(q) /\ Len(q) \in Nat
  BY LenProperties
<1>2. Append(q, e) \in Seq(S) /\ Len(Append(q, e)) = Len(q) + 1
  OBVIOUS
<1>3. DOMAIN Append(q, e) = 1..(Len(q) + 1)
  BY <1>2, LenProperties
<1>4. Append(q, e)[Len(q) + 1] = e /\ \A i \in 1..Len(q) : Append(q, e)[i] = q[i]
  BY <1>1
<1>5. QED
  BY <1>1, <1>2, <1>3, <1>4

\* A post of one kind is what that kind of post is.
LEMMA PostShape ==
  ASSUME NEW post \in Posts
  PROVE  /\ post[1] = "library" => post[2] \in Fetchers /\ post[3] \in Mounts
         /\ post[1] = "finished" => post[2] \in Fetchers /\ post = <<"finished", post[2]>>
<1>1. CASE post \in {"library"} \X Fetchers \X Mounts
  BY <1>1
<1>2. CASE post \in {"finished"} \X Fetchers
  BY <1>2
<1>3. CASE post = <<"iTunes">>
  BY <1>3
<1>4. QED
  BY <1>1, <1>2, <1>3 DEF Posts

\* A notice names a mount.
LEMMA NoticeShape ==
  ASSUME NEW notice \in Notices
  PROVE  /\ notice[2] \in Mounts
         /\ notice[2][1] \in Volumes
         /\ notice[2][2] \in 0..MaxPlugs
BY DEF Notices, Mounts

-----------------------------------------------------------------------------
(* The initial state.                                                      *)

LEMMA LibInvInit == Init => LibInv
<1> SUFFICES ASSUME Init PROVE LibInv
  OBVIOUS
<1>1. objects \in [Fetchers -> Seq(Mounts)]
  <2>1. PICK possible \in SetToSeqs(mounted \X {0}) :
          objects = [f \in Fetchers |-> IF f = 0 THEN possible ELSE <<>>]
    BY DEF Init
  <2>2. IsFiniteSet(mounted \X {0})
    <3>1. IsFiniteSet(mounted) /\ IsFiniteSet({0})
      BY LibrariesAssumption, FS_Subset, FS_Singleton DEF Init
    <3>2. QED
      BY <3>1, FS_Product
  <2>3. Cardinality(mounted \X {0}) \in Nat
    BY <2>2, FS_CardinalityType
  <2>4. possible \in [1..Cardinality(mounted \X {0}) -> mounted \X {0}]
    BY <2>1 DEF SetToSeqs
  <2>5. mounted \X {0} \subseteq Mounts
    BY LibrariesAssumption DEF Init, Mounts
  <2>6. possible \in Seq(Mounts)
    <3>1. \A n \in Nat : [1..n -> Mounts] \subseteq Seq(Mounts)
      OBVIOUS
    <3>2. possible \in [1..Cardinality(mounted \X {0}) -> Mounts]
      BY <2>4, <2>5
    <3>3. QED
      BY <2>3, <3>1, <3>2
  <2>7. <<>> \in Seq(Mounts)
    OBVIOUS
  <2>8. QED
    BY <2>1, <2>6, <2>7
<1>a. PICK late \in [1..plugs -> mounted] :
        notices = [i \in 1..plugs |-> <<"mount", <<late[i], i>>>>]
  BY DEF Init
<1>b. /\ plugs \in 0..MaxPlugs /\ mounted \subseteq Volumes
      /\ \A i \in 1..plugs : late[i] \in Volumes
  BY DEF Init
<1>c. \A i \in 1..plugs : <<"mount", <<late[i], i>>>> \in Notices
  <2> SUFFICES ASSUME NEW i \in 1..plugs PROVE <<"mount", <<late[i], i>>>> \in Notices
    OBVIOUS
  <2>1. i \in 0..MaxPlugs /\ late[i] \in Volumes
    BY <1>b, LibrariesAssumption
  <2>2. QED
    BY <2>1 DEF Notices, Mounts
<1>d. notices \in Seq(Notices)
  <2>1. plugs \in Nat
    BY <1>b, LibrariesAssumption
  <2>2. notices \in [1..plugs -> Notices]
    BY <1>a, <1>c
  <2>3. QED
    BY <2>1, <2>2
<1>2. TypeOK
  <2>1. at \in [Fetchers -> {"unused", "loop", "read", "post", "finish", "ended"}]
    BY DEF Init
  <2>2. canAddObjects \in [Fetchers -> BOOLEAN] /\ hasIPods \in BOOLEAN
    BY DEF Init
  <2>3. chunk \in [Fetchers -> Seq(Mounts)] /\ notices \in Seq(Notices) /\ mail \in Seq(Posts)
    <3>1. <<>> \in Seq(Mounts) /\ <<>> \in Seq(Posts)
      OBVIOUS
    <3>2. QED
      BY <1>d, <3>1 DEF Init
  <2>4. fetcher \in Fetchers \cup {Nil} /\ fetchers \in 1..(MaxPlugs + 1) /\ plugs \in 0..MaxPlugs
    BY LibrariesAssumption DEF Init, Fetchers
  <2>5. \A f \in Fetchers : at[f] # "post"
    BY DEF Init
  <2>6. mounted \subseteq Volumes /\ iPodLibraries \subseteq Mounts /\ crossed = {}
        /\ iTunesLibrary = "reading" /\ ejected = {}
    BY DEF Init
  <2>7. QED
    BY <1>1, <2>1, <2>2, <2>3, <2>4, <2>5, <2>6 DEF TypeOK
<1>3. Unmade /\ Closed
  BY DEF Init, Unmade, Closed, Fetchers
<1>4. EndsPosted /\ EndsOnce
  BY DEF Init, EndsPosted, EndsOnce
<1>5. NewestHeard
  BY DEF Init, NewestHeard, Newest
<1>e. MountsInOrder
  <2>1. \A i \in 1..plugs : notices[i][2] = <<late[i], i>>
    BY <1>a
  <2>2. DOMAIN notices = 1..plugs /\ plugs \in Nat /\ fetchers = 1
    BY <1>a, <1>b, LibrariesAssumption DEF Init
  <2>3. \A i \in 1..plugs : Plug(i) = i
    BY <2>1 DEF Plug
  <2>4. QED
    BY <2>2, <2>3 DEF MountsInOrder
<1>6. QED
  BY <1>2, <1>3, <1>4, <1>5, <1>e DEF LibInv

-----------------------------------------------------------------------------
(* The types.                                                              *)

LEMMA WorldType ==
  ASSUME TypeOK, NEW v \in Volumes, Mount(v) \/ Unmount(v)
  PROVE  TypeOK'
<1> USE DEF threadVars, fetcherVars, shownVars, TypeOK
<1>1. CASE Mount(v)
  <2>1. plugs' \in 0..MaxPlugs /\ mounted' \subseteq Volumes
    BY <1>1, LibrariesAssumption DEF Mount
  <2>2. <<"mount", <<v, plugs'>>>> \in Notices
    BY <2>1 DEF Notices, Mounts
  <2>3. notices' \in Seq(Notices)
    BY <2>2, <1>1 DEF Mount
  <2>4. QED
    BY <2>1, <2>3, <1>1 DEF Mount
<1>2. CASE Unmount(v)
  <2>1. <<"unmount", <<v, plugs>>>> \in Notices
    BY DEF Notices, Mounts
  <2>2. notices' \in Seq(Notices) /\ mounted' \subseteq Volumes
    BY <2>1, <1>2 DEF Unmount
  <2>3. QED
    BY <2>2, <1>2 DEF Unmount
<1>3. QED
  BY <1>1, <1>2

LEMMA FetchType ==
  ASSUME TypeOK, NEW f \in Fetchers, Fetch(f)
  PROVE  TypeOK'
<1> USE DEF worldVars, fetcherVars, shownVars, TypeOK
<1>1. CASE TakeObjects(f)
  <2>1. objects' \in [Fetchers -> Seq(Mounts)] /\ chunk' \in [Fetchers -> Seq(Mounts)]
    BY <1>1 DEF TakeObjects
  <2>2. canAddObjects' \in [Fetchers -> BOOLEAN]
    BY <1>1 DEF TakeObjects
  <2>3. at' \in [Fetchers -> {"unused", "loop", "read", "post", "finish", "ended"}]
    BY <1>1 DEF TakeObjects
  <2>4. \A g \in Fetchers : at'[g] = "post" => chunk'[g] # <<>>
    BY <1>1 DEF TakeObjects
  <2>5. QED
    BY <2>1, <2>2, <2>3, <2>4, <1>1 DEF TakeObjects
<1>2. CASE Read(f)
  <2>1. Tail(chunk[f]) \in Seq(Mounts)
    BY <1>2, HeadTailProperties DEF Read
  <2>2. chunk' \in [Fetchers -> Seq(Mounts)]
    BY <2>1, <1>2 DEF Read
  <2>3. at' \in [Fetchers -> {"unused", "loop", "read", "post", "finish", "ended"}]
    BY <1>2 DEF Read
  <2>4. \A g \in Fetchers : at'[g] = "post" => chunk'[g] # <<>>
    BY <1>2 DEF Read
  <2>5. QED
    BY <2>2, <2>3, <2>4, <1>2 DEF Read
<1>3. CASE PostLibrary(f)
  <2>1. Head(chunk[f]) \in Mounts /\ Tail(chunk[f]) \in Seq(Mounts)
    BY <1>3, HeadTailProperties DEF PostLibrary
  <2>2. <<"library", f, Head(chunk[f])>> \in Posts
    BY <2>1 DEF Posts
  <2>3. mail' \in Seq(Posts)
    BY <2>2, <1>3 DEF PostLibrary
  <2>4. QED
    BY <2>1, <2>3, <1>3 DEF PostLibrary
<1>4. CASE NextChunk(f)
  BY <1>4 DEF NextChunk
<1>5. CASE PostFinish(f)
  <2>1. <<"finished", f>> \in Posts
    BY DEF Posts
  <2>2. mail' \in Seq(Posts)
    BY <2>1, <1>5 DEF PostFinish
  <2>3. QED
    BY <2>2, <1>5 DEF PostFinish
<1>6. QED
  BY <1>1, <1>2, <1>3, <1>4, <1>5 DEF Fetch

LEMMA FetchITunesType == TypeOK /\ FetchITunes => TypeOK'
<1> SUFFICES ASSUME TypeOK, FetchITunes PROVE TypeOK'
  OBVIOUS
<1>1. <<"iTunes">> \in Posts
  BY DEF Posts
<1>2. mail' \in Seq(Posts)
  BY <1>1 DEF FetchITunes, TypeOK
<1>3. QED
  BY <1>2 DEF FetchITunes, TypeOK, worldVars, threadVars, fetcherVars

\* There is a fetcher for each mount that is announced.
LEMMA MountedFetcher ==
  ASSUME TypeOK, MountsInOrder, Notified("mount")
  PROVE  /\ (IF Added THEN fetcher ELSE fetchers) \in Fetchers
         /\ (IF Added THEN fetchers ELSE fetchers + 1) \in 1..(MaxPlugs + 1)
         /\ Head(notices)[2] \in Mounts
         /\ notices' \in Seq(Notices)
<1>1. /\ Head(notices) \in Notices /\ Head(notices) = notices[1] /\ 1 \in DOMAIN notices
      /\ Tail(notices) \in Seq(Notices)
  BY ServedQueue DEF Notified, TypeOK
<1>2. fetchers <= Plug(1) /\ Plug(1) \in 0..MaxPlugs /\ Head(notices)[2] \in Mounts
  BY <1>1, NoticeShape DEF MountsInOrder, IsMount, Plug, Notified
<1>3. fetchers \in Fetchers /\ fetchers + 1 \in 1..(MaxPlugs + 1)
  BY <1>2, LibrariesAssumption DEF Fetchers, TypeOK
<1>4. QED
  BY <1>1, <1>2, <1>3 DEF Added, TypeOK, Notified

LEMMA NoticeType ==
  ASSUME TypeOK, MountsInOrder, ServeNotice
  PROVE  TypeOK'
<1> USE DEF TypeOK
<1>1. CASE IPodMounted
  <2> DEFINE g == IF Added THEN fetcher ELSE fetchers
  <2>1. /\ g \in Fetchers /\ Head(notices)[2] \in Mounts /\ notices' \in Seq(Notices)
        /\ (IF Added THEN fetchers ELSE fetchers + 1) \in 1..(MaxPlugs + 1)
    BY <1>1, MountedFetcher DEF IPodMounted
  <2>2. /\ objects' = [objects EXCEPT ![g] = Append(@, Head(notices)[2])]
        /\ at' = [at EXCEPT ![g] = IF Added THEN @ ELSE "loop"]
        /\ fetcher' = g
        /\ fetchers' = IF Added THEN fetchers ELSE fetchers + 1
    BY <1>1 DEF IPodMounted
  <2> HIDE DEF g
  <2>3. objects' \in [Fetchers -> Seq(Mounts)]
    BY <2>1, <2>2
  <2>4. at' \in [Fetchers -> {"unused", "loop", "read", "post", "finish", "ended"}]
    BY <2>1, <2>2
  <2>5. UNCHANGED <<mounted, plugs, mail, canAddObjects, chunk, iPodLibraries, iTunesLibrary,
                    hasIPods, crossed, ejected>>
    BY <1>1 DEF IPodMounted, worldVars, shownVars
  <2>6. \A h \in Fetchers : at'[h] = "post" => chunk'[h] # <<>>
    BY <2>1, <2>2, <2>5
  <2>7. QED
    BY <2>1, <2>2, <2>3, <2>4, <2>5, <2>6
<1>2. CASE IPodRemoved
  <2>1. notices' \in Seq(Notices)
    BY <1>2, ServedQueue DEF IPodRemoved, Notified
  <2>2. iPodLibraries' \subseteq Mounts
    BY <1>2 DEF IPodRemoved, RemoveIPod
  <2>3. hasIPods' \in BOOLEAN
    BY <1>2 DEF IPodRemoved, RemoveIPod
  <2>4. QED
    BY <2>1, <2>2, <2>3, <1>2 DEF IPodRemoved, worldVars, threadVars, fetcherVars
<1>3. QED
  BY <1>1, <1>2 DEF ServeNotice

\* What a cross referencer is given is a pair.
LEMMA CrossedType ==
  ASSUME NEW l \in Mounts \cup {ITunes}, NEW libraries \in SUBSET (Mounts \cup {ITunes}),
         crossed \subseteq Pairs, Cross(l, libraries)
  PROVE  crossed' \subseteq Pairs
<1> SUFFICES ASSUME NEW pair \in crossed' PROVE pair \in Pairs
  OBVIOUS
<1>1. CASE pair \in crossed
  BY <1>1
<1>2. CASE pair \in {{l, k} : k \in libraries}
  <2>1. PICK k \in libraries : pair = {l, k}
    BY <1>2
  <2>2. k \in Mounts \cup {ITunes}
    OBVIOUS
  <2>3. QED
    BY <2>1, <2>2 DEF Pairs
<1>3. QED
  BY <1>1, <1>2 DEF Cross

LEMMA ServePostType ==
  ASSUME TypeOK, ServePost
  PROVE  TypeOK'
<1> USE DEF TypeOK
<1>1. mail # <<>> /\ mail' \in Seq(Posts) /\ Head(mail) \in Posts
  <2>1. mail # <<>> /\ mail' = Tail(mail)
    BY DEF ServePost, DidFetchLibrary, DidFetchITunes, FetcherDidFinish, Posted
  <2>2. Tail(mail) \in Seq(Posts) /\ Head(mail) \in Posts
    BY <2>1, ServedQueue
  <2>3. QED
    BY <2>1, <2>2
<1>2. CASE DidFetchLibrary
  <2>1. CASE Head(mail)[2] = fetcher
    <3>1. Head(mail)[3] \in Mounts
      BY <1>1, <1>2, PostShape DEF DidFetchLibrary, Posted
    <3>2. Cross(Head(mail)[3], LibrariesIncludingITunes)
      BY <1>2, <2>1 DEF DidFetchLibrary, AddIPod
    <3>3. LibrariesIncludingITunes \subseteq Mounts \cup {ITunes}
      BY DEF LibrariesIncludingITunes, ITunesIfLoaded
    <3>4. crossed' \subseteq Pairs
      BY <3>1, <3>2, <3>3, CrossedType
    <3>5. iPodLibraries' \subseteq Mounts /\ hasIPods' \in BOOLEAN
      BY <3>1, <1>2, <2>1 DEF DidFetchLibrary, AddIPod
    <3>6. QED
      BY <1>1, <3>4, <3>5, <1>2 DEF DidFetchLibrary, worldVars, threadVars, fetcherVars
  <2>2. CASE Head(mail)[2] # fetcher
    BY <1>1, <2>2, <1>2 DEF DidFetchLibrary, worldVars, threadVars, fetcherVars
  <2>3. QED
    BY <2>1, <2>2
<1>3. CASE DidFetchITunes
  <2>1. Cross(ITunes, iPodLibraries)
    BY <1>3 DEF DidFetchITunes
  <2>2. crossed' \subseteq Pairs
    BY <2>1, CrossedType
  <2>3. iTunesLibrary' \in {"reading", "posted", "empty", "loaded"}
    BY <1>3 DEF DidFetchITunes
  <2>4. QED
    BY <1>1, <2>2, <2>3, <1>3 DEF DidFetchITunes, worldVars, threadVars, fetcherVars
<1>4. CASE FetcherDidFinish
  BY <1>1, <1>4 DEF FetcherDidFinish, worldVars, threadVars, fetcherVars, shownVars
<1>5. QED
  BY <1>2, <1>3, <1>4 DEF ServePost

\* Ejecting changes nothing but what is shown.
LEMMA EjectOnlyShows ==
  ASSUME Eject
  PROVE  /\ UNCHANGED <<mounted, plugs, notices, mail, at, chunk, fetchers, canAddObjects, objects>>
         /\ UNCHANGED <<fetcher, iTunesLibrary, crossed>>
         /\ \E l \in iPodLibraries : /\ iPodLibraries' = iPodLibraries \ {l}
                                     /\ l[1] \in Mobiles /\ ejected' = ejected \cup {l[1]}
  BY DEF Eject, RemoveIPod, worldVars, threadVars, fetcherVars

LEMMA EjectType == TypeOK /\ Eject => TypeOK'
<1> SUFFICES ASSUME TypeOK, Eject PROVE TypeOK'
  OBVIOUS
<1>1. iPodLibraries' \subseteq Mounts /\ ejected' \subseteq Volumes
  BY EjectOnlyShows, LibrariesAssumption DEF TypeOK
<1>2. hasIPods' \in BOOLEAN
  BY DEF Eject, RemoveIPod
<1>3. QED
  BY <1>1, <1>2, EjectOnlyShows DEF TypeOK

LEMMA TypeStep == TypeOK /\ MountsInOrder /\ [Next]_vars => TypeOK'
<1> SUFFICES ASSUME TypeOK, MountsInOrder, [Next]_vars PROVE TypeOK'
  OBVIOUS
<1>1. CASE World
  BY <1>1, WorldType DEF World
<1>2. CASE \E f \in Fetchers : Fetch(f)
  BY <1>2, FetchType
<1>3. CASE FetchITunes
  BY <1>3, FetchITunesType
<1>4. CASE ServeNotice
  BY <1>4, NoticeType
<1>5. CASE ServePost
  BY <1>5, ServePostType
<1>6. CASE UNCHANGED vars
  BY <1>6 DEF TypeOK, vars, worldVars, threadVars, fetcherVars, shownVars
<1>7. CASE Eject
  BY <1>7, EjectType
<1>8. QED
  BY <1>1, <1>2, <1>3, <1>4, <1>5, <1>6, <1>7 DEF Next

-----------------------------------------------------------------------------
(* What a step does to a thread and to the posts.                          *)

\* Only a fetcher that is made, and has not ended, takes a step; it closes
\* when it has nothing.
LEMMA ThreadStep ==
  ASSUME TypeOK, NEW f \in Fetchers, Fetch(f)
  PROVE  /\ at[f] \notin {"unused", "ended"}
         /\ \A g \in Fetchers \ {f} :
              at'[g] = at[g] /\ objects'[g] = objects[g] /\ canAddObjects'[g] = canAddObjects[g]
         /\ at'[f] \in {"finish", "ended"} =>
              \/ objects'[f] = <<>> /\ ~canAddObjects'[f]
              \/ at[f] = "finish" /\ UNCHANGED <<objects, canAddObjects>>
         /\ at'[f] = "ended" => at[f] = "finish" /\ mail' = Append(mail, <<"finished", f>>)
         /\ UNCHANGED <<fetchers, fetcher, notices, plugs>>
<1>1. CASE TakeObjects(f)
  BY <1>1 DEF TakeObjects, TypeOK, worldVars
<1>2. CASE Read(f)
  BY <1>2 DEF Read, TypeOK, worldVars, fetcherVars
<1>3. CASE PostLibrary(f)
  BY <1>3 DEF PostLibrary, TypeOK, worldVars, fetcherVars
<1>4. CASE NextChunk(f)
  BY <1>4 DEF NextChunk, TypeOK, worldVars, fetcherVars
<1>5. CASE PostFinish(f)
  BY <1>5 DEF PostFinish, TypeOK, worldVars, fetcherVars
<1>6. QED
  BY <1>1, <1>2, <1>3, <1>4, <1>5 DEF Fetch

\* The mount that is announced goes to the fetcher there is, or to a new one.
LEMMA MountStep ==
  ASSUME TypeOK, MountsInOrder, IPodMounted
  PROVE  /\ UNCHANGED <<plugs, mail, canAddObjects>>
         /\ \/ /\ Added
               /\ UNCHANGED <<at, fetcher, fetchers>>
               /\ \A g \in Fetchers \ {fetcher} : objects'[g] = objects[g]
            \/ /\ fetchers \in Fetchers
               /\ at' = [at EXCEPT ![fetchers] = "loop"]
               /\ fetcher' = fetchers
               /\ fetchers' = fetchers + 1
               /\ \A g \in Fetchers \ {fetchers} : objects'[g] = objects[g]
<1>1. (IF Added THEN fetcher ELSE fetchers) \in Fetchers
  BY MountedFetcher DEF IPodMounted
<1>2. CASE Added
  BY <1>1, <1>2 DEF IPodMounted, TypeOK, worldVars
<1>3. CASE ~Added
  BY <1>1, <1>3 DEF IPodMounted, TypeOK, worldVars
<1>4. QED
  BY <1>2, <1>3

\* All that is posted but the end of a fetcher.
LEMMA PostStep ==
  ASSUME TypeOK, NEW f \in Fetchers, Fetch(f)
  PROVE  \/ UNCHANGED mail
         \/ \E post \in Posts :
              /\ mail' = Append(mail, post)
              /\ post[1] = "finished" => post = <<"finished", f>> /\ at[f] = "finish" /\ at'[f] = "ended"
<1>1. CASE TakeObjects(f) \/ Read(f) \/ NextChunk(f)
  BY <1>1 DEF TakeObjects, Read, NextChunk
<1>2. CASE PostLibrary(f)
  <2>1. Head(chunk[f]) \in Mounts
    BY <1>2 DEF PostLibrary, TypeOK
  <2>2. <<"library", f, Head(chunk[f])>> \in Posts
    BY <2>1 DEF Posts
  <2>3. QED
    BY <2>2, <1>2 DEF PostLibrary
<1>3. CASE PostFinish(f)
  <2>1. <<"finished", f>> \in Posts
    BY DEF Posts
  <2>2. QED
    BY <2>1, <1>3 DEF PostFinish, TypeOK
<1>4. QED
  BY <1>1, <1>2, <1>3 DEF Fetch

-----------------------------------------------------------------------------
(* The fetchers.                                                           *)

LEMMA UnmadeStep == TypeOK /\ MountsInOrder /\ Unmade /\ [Next]_vars => Unmade'
<1> SUFFICES ASSUME TypeOK, MountsInOrder, Unmade, [Next]_vars PROVE Unmade'
  OBVIOUS
<1>1. CASE \E f \in Fetchers : Fetch(f)
  BY <1>1, ThreadStep DEF Unmade
<1>2. CASE IPodMounted
  <2>1. CASE Added /\ UNCHANGED <<at, fetchers>>
    BY <2>1 DEF Unmade
  <2>2. CASE fetchers \in Fetchers /\ at' = [at EXCEPT ![fetchers] = "loop"] /\ fetchers' = fetchers + 1
    <3>1. \A f \in Fetchers : f >= fetchers + 1 => f >= fetchers /\ f # fetchers
      BY LibrariesAssumption DEF TypeOK, Fetchers
    <3>2. QED
      BY <2>2, <3>1 DEF Unmade, TypeOK
  <2>3. QED
    BY <1>2, <2>1, <2>2, MountStep
<1>3. CASE World \/ FetchITunes \/ IPodRemoved \/ Eject \/ ServePost \/ UNCHANGED vars
  <2>1. UNCHANGED <<at, fetchers>>
    BY <1>3 DEF World, Mount, Unmount, FetchITunes, IPodRemoved, Eject, ServePost,
                DidFetchLibrary, DidFetchITunes, FetcherDidFinish, vars, threadVars,
                fetcherVars
  <2>2. QED
    BY <2>1 DEF Unmade
<1>4. QED
  BY <1>1, <1>2, <1>3 DEF Next, ServeNotice

LEMMA ClosedStep == TypeOK /\ MountsInOrder /\ Closed /\ [Next]_vars => Closed'
<1> SUFFICES ASSUME TypeOK, MountsInOrder, Closed, [Next]_vars PROVE Closed'
  OBVIOUS
<1>1. CASE \E f \in Fetchers : Fetch(f)
  BY <1>1, ThreadStep DEF Closed
<1>2. CASE IPodMounted
  BY <1>2, MountStep DEF Closed, TypeOK, Added
<1>3. CASE World \/ FetchITunes \/ IPodRemoved \/ Eject \/ ServePost \/ UNCHANGED vars
  <2>1. UNCHANGED <<at, objects, canAddObjects>>
    BY <1>3 DEF World, Mount, Unmount, FetchITunes, IPodRemoved, Eject, ServePost,
                DidFetchLibrary, DidFetchITunes, FetcherDidFinish, vars, threadVars,
                fetcherVars
  <2>2. QED
    BY <2>1 DEF Closed
<1>4. QED
  BY <1>1, <1>2, <1>3 DEF Next, ServeNotice

LEMMA OrderStep == TypeOK /\ MountsInOrder /\ [Next]_vars => MountsInOrder'
<1> SUFFICES ASSUME TypeOK, MountsInOrder, [Next]_vars PROVE MountsInOrder'
  OBVIOUS
<1> USE DEF MountsInOrder, IsMount, Plug
<1>1. ASSUME NEW v \in Volumes, Mount(v) PROVE MountsInOrder'
  <2>1. plugs' = plugs + 1 /\ plugs' \in 0..MaxPlugs /\ plugs \in Nat
        /\ fetchers' = fetchers /\ fetchers \in Nat
    BY <1>1, LibrariesAssumption DEF Mount, TypeOK, fetcherVars
  <2> DEFINE notice == <<"mount", <<v, plugs'>>>>
  <2>2. notice \in Notices /\ notice[1] = "mount" /\ notice[2][2] = plugs'
    BY <2>1 DEF Notices, Mounts
  <2>3. notices' = Append(notices, notice)
    BY <1>1 DEF Mount
  <2> HIDE DEF notice
  <2>4. /\ DOMAIN notices' = DOMAIN notices \cup {Len(notices) + 1}
        /\ notices'[Len(notices) + 1] = notice
        /\ \A i \in DOMAIN notices : notices'[i] = notices[i] /\ i < Len(notices) + 1
        /\ Len(notices) \in Nat /\ DOMAIN notices \subseteq Nat
    BY <2>2, <2>3, PostedQueue DEF TypeOK
  <2>5. \A i \in DOMAIN notices : Plug(i) \in Nat
    BY NoticeShape, LibrariesAssumption, ElementOfSeq, LenProperties DEF TypeOK
  <2>6. QED
    BY <2>1, <2>2, <2>4, <2>5
<1>2. ASSUME NEW v \in Volumes, Unmount(v) PROVE MountsInOrder'
  <2>1. UNCHANGED <<plugs, fetchers>>
    BY <1>2 DEF Unmount, fetcherVars
  <2> DEFINE notice == <<"unmount", <<v, plugs>>>>
  <2>2. notice \in Notices /\ notice[1] # "mount"
    BY LibrariesAssumption DEF Notices, Mounts, TypeOK
  <2>3. notices' = Append(notices, notice)
    BY <1>2 DEF Unmount
  <2> HIDE DEF notice
  <2>4. /\ DOMAIN notices' = DOMAIN notices \cup {Len(notices) + 1}
        /\ notices'[Len(notices) + 1] = notice
        /\ \A i \in DOMAIN notices : notices'[i] = notices[i]
    BY <2>2, <2>3, PostedQueue DEF TypeOK
  <2>5. QED
    BY <2>1, <2>2, <2>4
<1>3. CASE ServeNotice
  <2>1. notices # <<>> /\ notices' = Tail(notices) /\ plugs' = plugs
    BY <1>3 DEF ServeNotice, IPodMounted, IPodRemoved, Notified, worldVars
  <2>2. /\ Head(notices) = notices[1] /\ 1 \in DOMAIN notices
        /\ \A i \in DOMAIN notices' : i + 1 \in DOMAIN notices /\ notices'[i] = notices[i + 1]
        /\ DOMAIN notices' \subseteq Nat \ {0} /\ DOMAIN notices \subseteq Nat \ {0}
    BY <2>1, ServedQueue DEF TypeOK
  <2>3. \A i \in DOMAIN notices : Plug(i) \in Nat
    BY NoticeShape, LibrariesAssumption, ElementOfSeq, LenProperties DEF TypeOK
  <2>4. fetchers \in Nat /\ plugs \in Nat
    BY LibrariesAssumption DEF TypeOK
  <2>5. CASE IPodMounted
    <3>1. fetchers' \in {fetchers, fetchers + 1}
      BY <2>5 DEF IPodMounted
    <3>2. IsMount(1)
      BY <2>2, <2>5 DEF IPodMounted, Notified
    <3>3. fetchers + 1 <= plugs + 1
      BY <2>2, <2>3, <2>4, <3>2
    <3>4. \A i \in DOMAIN notices' : 1 < i + 1
      BY <2>2
    <3>5. \A i \in DOMAIN notices' : IsMount(i + 1) => fetchers + 1 <= Plug(i + 1)
      BY <2>2, <2>3, <2>4, <3>2, <3>4
    <3>6. QED
      BY <2>1, <2>2, <2>3, <2>4, <3>1, <3>3, <3>5
  <2>6. CASE IPodRemoved
    <3>1. fetchers' = fetchers
      BY <2>6 DEF IPodRemoved, fetcherVars
    <3>2. \A i \in DOMAIN notices' : IsMount(i)' => IsMount(i + 1) /\ Plug(i)' = Plug(i + 1)
      BY <2>2
    <3>3. \A i, j \in DOMAIN notices' : i < j => i + 1 < j + 1
      BY <2>2
    <3>4. \A i, j \in DOMAIN notices' : IsMount(i)' /\ IsMount(j)' /\ i < j => Plug(i)' < Plug(j)'
      <4> SUFFICES ASSUME NEW i \in DOMAIN notices', NEW j \in DOMAIN notices',
                          IsMount(i)', IsMount(j)', i < j
                   PROVE  Plug(i)' < Plug(j)'
        OBVIOUS
      <4>1. Plug(i + 1) < Plug(j + 1)
        BY <2>2, <3>2, <3>3
      <4>2. QED
        BY <3>2, <4>1
    <3>5. QED
      BY <2>1, <2>2, <3>1, <3>2, <3>4
  <2>7. QED
    BY <1>3, <2>5, <2>6 DEF ServeNotice
<1>4. CASE (\E f \in Fetchers : Fetch(f)) \/ FetchITunes \/ ServePost \/ Eject \/ UNCHANGED vars
  <2>1. CASE \E f \in Fetchers : Fetch(f)
    BY <2>1, ThreadStep
  <2>2. CASE FetchITunes \/ ServePost \/ Eject \/ UNCHANGED vars
    <3>1. UNCHANGED <<notices, fetchers, plugs>>
      BY <2>2 DEF FetchITunes, Eject, ServePost, DidFetchLibrary, DidFetchITunes,
                  FetcherDidFinish, vars, worldVars, fetcherVars
    <3>2. QED
      BY <3>1
  <2>3. QED
    BY <1>4, <2>1, <2>2
<1>5. QED
  BY <1>1, <1>2, <1>3, <1>4 DEF Next, World

-----------------------------------------------------------------------------
(* What is posted.                                                         *)

\* Something is posted, and is the last of the posts.
LEMMA Appended ==
  ASSUME TypeOK, NEW post \in Posts, mail' = Append(mail, post)
  PROVE  /\ \A i \in DOMAIN mail : i \in DOMAIN mail' /\ mail'[i] = mail[i]
         /\ \A i \in DOMAIN mail' : i \notin DOMAIN mail => i = Len(mail) + 1 /\ mail'[i] = post
         /\ Len(mail) + 1 \notin DOMAIN mail
<1>1. mail \in Seq(Posts)
  BY DEF TypeOK
<1>2. /\ DOMAIN mail' = DOMAIN mail \cup {Len(mail) + 1}
      /\ mail'[Len(mail) + 1] = post
      /\ \A i \in DOMAIN mail : mail'[i] = mail[i]
      /\ Len(mail) + 1 \notin DOMAIN mail
  BY <1>1, PostedQueue
<1>3. QED
  BY <1>2

\* A post is served, and was the first.
LEMMA Served ==
  ASSUME TypeOK, mail # <<>>, mail' = Tail(mail)
  PROVE  /\ Head(mail) = mail[1] /\ 1 \in DOMAIN mail /\ Head(mail) \in Posts
         /\ \A i \in DOMAIN mail' :
              i \in Nat \ {0} /\ i + 1 \in DOMAIN mail /\ mail'[i] = mail[i + 1]
BY ServedQueue DEF TypeOK

\* Those who post, each as its action says, and those who serve or do neither.
LEMMA MailStep ==
  ASSUME TypeOK, [Next]_vars
  PROVE  \/ \E f \in Fetchers : Fetch(f)
         \/ FetchITunes
         \/ IPodMounted
         \/ ServePost /\ mail # <<>> /\ mail' = Tail(mail) /\ UNCHANGED <<at, fetchers>>
         \/ UNCHANGED <<mail, at, fetchers, fetcher>>
<1>1. CASE World \/ IPodRemoved \/ Eject \/ UNCHANGED vars
  BY <1>1 DEF World, Mount, Unmount, IPodRemoved, Eject, vars, threadVars, fetcherVars
<1>2. CASE ServePost
  BY <1>2 DEF ServePost, DidFetchLibrary, DidFetchITunes, FetcherDidFinish, Posted,
              threadVars, fetcherVars
<1>3. QED
  BY <1>1, <1>2 DEF Next, ServeNotice

\* The library of iTunes is not the end of a fetcher.
LEMMA ITunesPosted ==
  ASSUME FetchITunes
  PROVE  \E post \in Posts : mail' = Append(mail, post) /\ post[1] # "finished"
                            /\ UNCHANGED <<at, fetchers, fetcher>>
<1>1. <<"iTunes">> \in Posts /\ <<"iTunes">>[1] # "finished"
  BY DEF Posts
<1>2. QED
  BY <1>1 DEF FetchITunes, threadVars, fetcherVars

LEMMA EndsPostedStep ==
  ASSUME TypeOK, MountsInOrder, Unmade, EndsPosted, [Next]_vars
  PROVE  EndsPosted'
<1> USE DEF EndsPosted, IsEnd
<1>1. \A i \in DOMAIN mail : mail[i] \in Posts
  BY ElementOfSeq, LenProperties DEF TypeOK
<1>2. \A i \in DOMAIN mail : IsEnd(i) => mail[i][2] \in Fetchers
  BY <1>1, PostShape
<1>3. ASSUME NEW f \in Fetchers, Fetch(f) PROVE EndsPosted'
  <2>1. \A i \in DOMAIN mail : IsEnd(i) => at'[mail[i][2]] = "ended"
    BY <1>2, <1>3, ThreadStep
  <2>2. CASE UNCHANGED mail
    BY <2>1, <2>2
  <2>3. ASSUME NEW post \in Posts, mail' = Append(mail, post),
               post[1] = "finished" => post = <<"finished", f>> /\ at'[f] = "ended"
        PROVE  EndsPosted'
    BY <2>1, <2>3, Appended
  <2>4. QED
    BY <1>3, <2>2, <2>3, PostStep
<1>4. CASE FetchITunes
  BY <1>4, ITunesPosted, Appended
<1>5. CASE IPodMounted
  <2>1. UNCHANGED mail
    BY <1>5, MountStep
  <2>2. CASE UNCHANGED at
    BY <2>1, <2>2
  <2>3. CASE fetchers \in Fetchers /\ at' = [at EXCEPT ![fetchers] = "loop"]
    <3>1. at[fetchers] = "unused"
      BY <2>3 DEF Unmade, TypeOK, Fetchers
    <3>2. QED
      BY <1>2, <2>1, <2>3, <3>1 DEF TypeOK
  <2>4. QED
    BY <1>5, <2>2, <2>3, MountStep
<1>6. CASE mail # <<>> /\ mail' = Tail(mail) /\ UNCHANGED <<at, fetchers>>
  BY <1>6, Served
<1>7. CASE UNCHANGED <<mail, at>>
  BY <1>7
<1>8. QED
  BY <1>3, <1>4, <1>5, <1>6, <1>7, MailStep

LEMMA EndsOnceStep ==
  ASSUME TypeOK, MountsInOrder, EndsPosted, EndsOnce, [Next]_vars
  PROVE  EndsOnce'
<1> USE DEF EndsOnce, IsEnd
<1>1. ASSUME NEW f \in Fetchers, Fetch(f) PROVE EndsOnce'
  <2>1. CASE UNCHANGED mail
    BY <2>1
  <2>2. ASSUME NEW post \in Posts, mail' = Append(mail, post),
               post[1] = "finished" => post = <<"finished", f>> /\ at[f] = "finish"
        PROVE  EndsOnce'
    <3>1. \A i \in DOMAIN mail : IsEnd(i) => mail[i] # post
      BY <2>2 DEF EndsPosted
    <3>2. QED
      BY <2>2, <3>1, Appended
  <2>3. QED
    BY <1>1, <2>1, <2>2, PostStep
<1>2. CASE FetchITunes
  BY <1>2, ITunesPosted, Appended
<1>3. CASE mail # <<>> /\ mail' = Tail(mail)
  <2>1. \A i, j \in DOMAIN mail' : i + 1 = j + 1 => i = j
    BY <1>3, Served
  <2>2. QED
    BY <1>3, <2>1, Served
<1>4. CASE UNCHANGED mail
  BY <1>4
<1>5. CASE IPodMounted
  BY <1>4, <1>5, MountStep
<1>6. QED
  BY <1>1, <1>2, <1>3, <1>4, <1>5, MailStep

-----------------------------------------------------------------------------
(* The newest fetcher is heard.                                            *)

LEMMA NewestHeardStep ==
  ASSUME LibInv, [Next]_vars
  PROVE  NewestHeard'
<1> USE DEF NewestHeard, Newest
<1> TypeOK /\ Unmade /\ Closed /\ EndsPosted /\ EndsOnce /\ MountsInOrder /\ NewestHeard
  BY DEF LibInv
<1>1. Newest \in Nat /\ Nil \notin Nat /\ Newest \in Fetchers /\ fetchers = Newest + 1
  BY LibrariesAssumption DEF TypeOK, Fetchers
<1>2. ASSUME NEW f \in Fetchers, Fetch(f) PROVE NewestHeard'
  <2>1. UNCHANGED <<fetchers, fetcher>>
    BY <1>2, ThreadStep
  <2>2. at'[Newest] # "ended" => at[Newest] # "ended"
    BY <1>1, <1>2, ThreadStep
  <2>3. CASE UNCHANGED mail
    BY <2>1, <2>2, <2>3
  <2>4. ASSUME NEW post \in Posts, mail' = Append(mail, post),
               post[1] = "finished" => post = <<"finished", f>> /\ at[f] = "finish"
        PROVE  NewestHeard'
    <3>1. ASSUME NEW i \in DOMAIN mail', mail'[i] = <<"finished", Newest>>
          PROVE  at[Newest] # "ended" \/ \E j \in DOMAIN mail : mail[j] = <<"finished", Newest>>
      <4>1. CASE i \in DOMAIN mail
        BY <2>4, <3>1, <4>1, Appended
      <4>2. CASE i \notin DOMAIN mail
        <5>1. post = <<"finished", Newest>>
          BY <2>4, <3>1, <4>2, Appended
        <5>2. f = Newest /\ at[f] = "finish"
          BY <2>4, <5>1
        <5>3. QED
          BY <5>2
      <4>3. QED
        BY <4>1, <4>2
    <3>2. QED
      BY <2>1, <2>2, <3>1
  <2>5. QED
    BY <1>2, <2>3, <2>4, PostStep
<1>3. CASE FetchITunes
  <2>1. PICK post \in Posts : /\ mail' = Append(mail, post) /\ post[1] # "finished"
                             /\ UNCHANGED <<at, fetchers, fetcher>>
    BY <1>3, ITunesPosted
  <2>2. \A i \in DOMAIN mail' :
          mail'[i] = <<"finished", Newest>> => i \in DOMAIN mail /\ mail[i] = <<"finished", Newest>>
    BY <2>1, Appended
  <2>3. QED
    BY <2>1, <2>2
<1>4. CASE IPodMounted
  <2>1. CASE UNCHANGED <<mail, at, fetcher, fetchers>>
    BY <2>1
  <2>2. CASE fetcher' = fetchers /\ fetchers' = fetchers + 1
    BY <1>1, <2>2
  <2>3. QED
    BY <1>4, <2>1, <2>2, MountStep
<1>5. CASE ServePost /\ mail # <<>> /\ mail' = Tail(mail) /\ UNCHANGED <<at, fetchers>>
  <2>1. \A i \in DOMAIN mail' :
          i \in Nat \ {0} /\ i + 1 \in DOMAIN mail /\ mail'[i] = mail[i + 1]
    BY <1>5, Served
  <2>2. CASE UNCHANGED fetcher
    BY <1>5, <2>1, <2>2
  <2>3. CASE mail[1] = <<"finished", fetcher>> /\ fetcher \in Fetchers /\ fetcher' = Nil
    <3> SUFFICES ASSUME at'[Newest'] # "ended"
                        \/ \E i \in DOMAIN mail' : mail'[i] = <<"finished", Newest'>>
                 PROVE  FALSE
      OBVIOUS
    <3>1. 1 \in DOMAIN mail
      BY <1>5, Served
    <3>2. Newest' = Newest
      BY <1>5
    <3>3. fetcher = Newest
      BY <1>5, <2>1, <3>2
    <3>4. at[Newest] = "ended"
      BY <2>3, <3>1, <3>3 DEF EndsPosted, IsEnd
    <3>5. PICK i \in DOMAIN mail' : mail'[i] = <<"finished", Newest>>
      BY <1>5, <3>2, <3>4
    <3>6. i + 1 \in DOMAIN mail /\ mail[i + 1] = mail[1]
      BY <2>1, <2>3, <3>3, <3>5
    <3>7. 1 = i + 1
      BY <2>3, <3>1, <3>6 DEF EndsOnce, IsEnd
    <3>8. QED
      BY <2>1, <3>7
  <2>4. \/ fetcher' = fetcher
        \/ mail[1] = <<"finished", fetcher>> /\ fetcher \in Fetchers /\ fetcher' = Nil
    <3>1. CASE DidFetchLibrary \/ DidFetchITunes
      BY <3>1 DEF DidFetchLibrary, DidFetchITunes
    <3>2. CASE FetcherDidFinish
      <4>1. mail[1] = Head(mail) /\ Head(mail) \in Posts /\ Head(mail)[1] = "finished"
        BY <1>5, <3>2, Served DEF FetcherDidFinish, Posted
      <4>2. mail[1] = <<"finished", mail[1][2]>> /\ mail[1][2] \in Fetchers
        BY <4>1, PostShape
      <4>3. fetcher' = IF mail[1][2] = fetcher THEN Nil ELSE fetcher
        BY <3>2, <4>1 DEF FetcherDidFinish
      <4>4. QED
        BY <4>2, <4>3
    <3>3. QED
      BY <1>5, <3>1, <3>2 DEF ServePost
  <2>5. QED
    BY <2>2, <2>3, <2>4
<1>6. CASE UNCHANGED <<mail, at, fetchers, fetcher>>
  BY <1>6
<1>7. QED
  BY <1>2, <1>3, <1>4, <1>5, <1>6, MailStep

-----------------------------------------------------------------------------
LEMMA LibInvStep == LibInv /\ [Next]_vars => LibInv'
<1> SUFFICES ASSUME LibInv, [Next]_vars PROVE LibInv'
  OBVIOUS
<1>1. TypeOK /\ Unmade /\ Closed /\ EndsPosted /\ EndsOnce /\ MountsInOrder
  BY DEF LibInv
<1>2. TypeOK' /\ MountsInOrder'
  BY <1>1, TypeStep, OrderStep
<1>3. Unmade' /\ Closed'
  BY <1>1, UnmadeStep, ClosedStep
<1>4. EndsPosted' /\ EndsOnce'
  BY <1>1, EndsPostedStep, EndsOnceStep
<1>5. NewestHeard'
  BY NewestHeardStep
<1>6. QED
  BY <1>2, <1>3, <1>4, <1>5 DEF LibInv

THEOREM LibInvHolds == Spec => []LibInv
  BY LibInvInit, LibInvStep, PTL DEF Spec

\* Every variable has its type, and a thread that posts a library has one to
\* post (fetchLibraries).
THEOREM LibraryTypes == Spec => []TypeOK
<1>1. LibInv => TypeOK
  BY DEF LibInv
<1>2. QED
  BY <1>1, LibInvHolds, PTL

\* What a fetcher has accepted it looks at: addObjects: and the last look of
\* fetchLibraries before it closes cannot miss each other.
THEOREM NothingLeftBehind == Spec => []NoneLeftBehind
<1>1. LibInv => NoneLeftBehind
  BY DEF LibInv, Closed, NoneLeftBehind
<1>2. QED
  BY <1>1, LibInvHolds, PTL

\* A fetcher that has been replaced and finishes late does not have the
\* controller let go of the one that replaced it
\* (libraryFetcherDidFinish:).
THEOREM NewestIsHeard == Spec => []NewestHeard
<1>1. LibInv => NewestHeard
  BY DEF LibInv
<1>2. QED
  BY <1>1, LibInvHolds, PTL

-----------------------------------------------------------------------------
(* The cross references, which rest on nothing but the main thread.        *)

\* A library that is shown next is crossed with all that are shown.
LEMMA CrossedWithAll ==
  ASSUME EveryPairCrossed, NEW l, NEW libraries, Cross(l, libraries),
         LibrariesIncludingITunes' \subseteq LibrariesIncludingITunes \cup {l},
         LibrariesIncludingITunes \ {l} \subseteq libraries
  PROVE  EveryPairCrossed'
<1> SUFFICES ASSUME NEW j \in LibrariesIncludingITunes', NEW k \in LibrariesIncludingITunes', j # k
             PROVE  {j, k} \in crossed'
  BY DEF EveryPairCrossed
<1>1. crossed' = crossed \cup {{l, i} : i \in libraries}
  BY DEF Cross
<1>2. CASE j = l
  BY <1>1, <1>2
<1>3. CASE k = l
  <2>1. {j, k} = {l, j} /\ j \in libraries
    BY <1>3
  <2>2. QED
    BY <1>1, <2>1
<1>4. CASE j # l /\ k # l
  BY <1>1, <1>4 DEF EveryPairCrossed
<1>5. QED
  BY <1>2, <1>3, <1>4

LEMMA CrossedStep == EveryPairCrossed /\ [Next]_vars => EveryPairCrossed'
<1> SUFFICES ASSUME EveryPairCrossed, [Next]_vars PROVE EveryPairCrossed'
  OBVIOUS
<1>1. ASSUME LibrariesIncludingITunes' \subseteq LibrariesIncludingITunes, UNCHANGED crossed
      PROVE  EveryPairCrossed'
  BY <1>1 DEF EveryPairCrossed
<1>2. CASE DidFetchLibrary
  <2>1. CASE Head(mail)[2] = fetcher
    <3> DEFINE l == Head(mail)[3]
    <3>1. Cross(l, LibrariesIncludingITunes) /\ iPodLibraries' = iPodLibraries \cup {l}
          /\ iTunesLibrary' = iTunesLibrary
      BY <1>2, <2>1 DEF DidFetchLibrary, AddIPod
    <3>2. LibrariesIncludingITunes' \subseteq LibrariesIncludingITunes \cup {l}
      BY <3>1 DEF LibrariesIncludingITunes, ITunesIfLoaded
    <3> HIDE DEF l
    <3>3. QED
      BY <3>1, <3>2, CrossedWithAll
  <2>2. CASE Head(mail)[2] # fetcher
    BY <1>1, <1>2, <2>2 DEF DidFetchLibrary, LibrariesIncludingITunes, ITunesIfLoaded
  <2>3. QED
    BY <2>1, <2>2
<1>3. CASE DidFetchITunes
  <2>1. Cross(ITunes, iPodLibraries) /\ iPodLibraries' = iPodLibraries
    BY <1>3 DEF DidFetchITunes
  <2>2. LibrariesIncludingITunes' \subseteq LibrariesIncludingITunes \cup {ITunes}
    BY <2>1 DEF LibrariesIncludingITunes, ITunesIfLoaded
  <2>3. LibrariesIncludingITunes \ {ITunes} \subseteq iPodLibraries
    BY DEF LibrariesIncludingITunes, ITunesIfLoaded
  <2>4. QED
    BY <2>1, <2>2, <2>3, CrossedWithAll
<1>4. CASE IPodRemoved
  BY <1>1, <1>4 DEF IPodRemoved, RemoveIPod, LibrariesIncludingITunes, ITunesIfLoaded
<1>a. CASE Eject
  BY <1>1, <1>a, EjectOnlyShows DEF LibrariesIncludingITunes, ITunesIfLoaded
<1>5. CASE FetchITunes
  BY <1>1, <1>5 DEF FetchITunes, LibrariesIncludingITunes, ITunesIfLoaded
<1>6. CASE World \/ (\E f \in Fetchers : Fetch(f)) \/ IPodMounted \/ FetcherDidFinish \/ UNCHANGED vars
  <2>1. UNCHANGED <<iPodLibraries, iTunesLibrary, crossed>>
    BY <1>6 DEF World, Mount, Unmount, Fetch, TakeObjects, Read, PostLibrary, NextChunk,
                PostFinish, IPodMounted, FetcherDidFinish, vars, shownVars
  <2>2. QED
    BY <1>1, <2>1 DEF LibrariesIncludingITunes, ITunesIfLoaded
<1>7. QED
  BY <1>2, <1>3, <1>4, <1>a, <1>5, <1>6 DEF Next, ServeNotice, ServePost

\* Whatever the order in which the libraries are fetched, every two that are
\* shown have been handed to a cross referencer (addIPod:, setITunesLibrary:).
THEOREM EveryPairIsCrossed == Spec => []EveryPairCrossed
<1>1. Init => EveryPairCrossed
  BY DEF Init, EveryPairCrossed, LibrariesIncludingITunes, ITunesIfLoaded
<1>2. QED
  BY <1>1, CrossedStep, PTL DEF Spec

-----------------------------------------------------------------------------
(* The first fetcher: where each iPod that is mounted is on its way to be  *)
(* shown.                                                                  *)

Announced(kind, v, i) == notices[i][1] = kind /\ notices[i][2][1] = v
IsLibrary(i) == mail[i][1] = "library" /\ mail[i][2] = 0
Has(q, v) == \E i \in DOMAIN q : q[i][1] = v

Due(v) ==
  \/ \E i \in DOMAIN notices : Announced("mount", v, i)
  \/ Has(objects[0], v) \/ Has(chunk[0], v)
  \/ \E i \in DOMAIN mail : IsLibrary(i) /\ mail[i][3][1] = v
  \/ \E l \in iPodLibraries : l[1] = v

\* A volume that is mounted, and whose removal is still to be served, has been
\* mounted again since.
RemountComes ==
  \A v \in mounted : \A i \in DOMAIN notices :
    Announced("unmount", v, i) => \E j \in DOMAIN notices : i < j /\ Announced("mount", v, j)

\* The first fetcher is there from the start, and has something at hand only
\* while it reads.
AllLooked == at[0] # "unused" /\ (at[0] \notin {"read", "post"} => chunk[0] = <<>>)

FetcherMade == fetcher # Nil => fetcher < fetchers

\* The end of the fetcher is the last thing it posts.
EndComesLast ==
  at[0] = "ended" => \A i \in DOMAIN mail :
    IsLibrary(i) => \E j \in DOMAIN mail : i < j /\ mail[j] = <<"finished", 0>>

NoneForgotten == fetchers = 1 => \A v \in (mounted \cap IPods) \ ejected : Due(v)

FirstInv ==
  LibInv /\ RemountComes /\ AllLooked /\ FetcherMade /\ EndComesLast /\ NoneForgotten

\* What is not at the head of a queue is still in it when the head is served.
LEMMA StillQueued ==
  ASSUME NEW S, NEW q \in Seq(S), q # <<>>, NEW i \in DOMAIN q, i # 1
  PROVE  i - 1 \in DOMAIN Tail(q) /\ Tail(q)[i - 1] = q[i]
<1>1. DOMAIN q = 1..Len(q) /\ Len(q) \in Nat \ {0}
  BY LenProperties, EmptySeq
<1>2. Tail(q) \in Seq(S) /\ Len(Tail(q)) = Len(q) - 1
  BY HeadTailProperties
<1>3. DOMAIN Tail(q) = 1..(Len(q) - 1)
  BY <1>2, LenProperties
<1>4. i - 1 \in 1..(Len(q) - 1)
  BY <1>1
<1>5. Tail(q)[i - 1] = q[(i - 1) + 1]
  BY <1>4, HeadTailProperties
<1>6. QED
  BY <1>1, <1>3, <1>4, <1>5

LEMMA TailHas ==
  ASSUME NEW S, NEW q \in Seq(S), q # <<>>, NEW v, Has(q, v)
  PROVE  Head(q)[1] = v \/ Has(Tail(q), v)
<1>1. PICK i \in DOMAIN q : q[i][1] = v
  BY DEF Has
<1>2. CASE i = 1
  BY <1>1, <1>2, ServedQueue
<1>3. CASE i # 1
  BY <1>1, <1>3, StillQueued DEF Has
<1>4. QED
  BY <1>2, <1>3

LEMMA AppendHas ==
  ASSUME NEW S, NEW q \in Seq(S), NEW e \in S, NEW v, Has(q, v) \/ e[1] = v
  PROVE  Has(Append(q, e), v)
<1>1. CASE e[1] = v
  BY <1>1, PostedQueue DEF Has
<1>2. CASE Has(q, v)
  BY <1>2, PostedQueue DEF Has
<1>3. QED
  BY <1>1, <1>2

LEMMA FirstFetcher == 0 \in Fetchers
BY LibrariesAssumption DEF Fetchers

-----------------------------------------------------------------------------
(* The notices.                                                            *)

LEMMA RemountStep == TypeOK /\ RemountComes /\ [Next]_vars => RemountComes'
<1> SUFFICES ASSUME TypeOK, RemountComes, [Next]_vars,
                    NEW w \in mounted', NEW i \in DOMAIN notices',
                    Announced("unmount", w, i)'
             PROVE  \E j \in DOMAIN notices' : i < j /\ Announced("mount", w, j)'
  BY DEF RemountComes
<1> USE DEF Announced
<1>1. CASE UNCHANGED <<mounted, notices>>
  BY <1>1 DEF RemountComes
<1>2. ASSUME NEW v \in Volumes, Mount(v)
      PROVE  \E j \in DOMAIN notices' : i < j /\ Announced("mount", w, j)'
  <2> DEFINE notice == <<"mount", <<v, plugs'>>>>
  <2>1. notice \in Notices /\ notice[1] = "mount" /\ notice[2][1] = v
    BY <1>2, LibrariesAssumption DEF Mount, Notices, Mounts, TypeOK
  <2>2. notices' = Append(notices, notice) /\ mounted' = mounted \cup {v}
    BY <1>2 DEF Mount
  <2> HIDE DEF notice
  <2>3. /\ DOMAIN notices' = DOMAIN notices \cup {Len(notices) + 1}
        /\ notices'[Len(notices) + 1] = notice
        /\ \A k \in DOMAIN notices : notices'[k] = notices[k] /\ k < Len(notices) + 1
    BY <2>1, <2>2, PostedQueue DEF TypeOK
  <2>4. i \in DOMAIN notices
    BY <2>1, <2>3
  <2>5. CASE w = v
    BY <2>1, <2>3, <2>4, <2>5
  <2>6. CASE w # v
    <3>1. w \in mounted /\ Announced("unmount", w, i)
      BY <2>2, <2>3, <2>4, <2>6
    <3>2. PICK j \in DOMAIN notices : i < j /\ Announced("mount", w, j)
      BY <2>4, <3>1 DEF RemountComes
    <3>3. QED
      BY <2>3, <3>2
  <2>7. QED
    BY <2>5, <2>6
<1>3. ASSUME NEW v \in Volumes, Unmount(v)
      PROVE  \E j \in DOMAIN notices' : i < j /\ Announced("mount", w, j)'
  <2> DEFINE notice == <<"unmount", <<v, plugs>>>>
  <2>1. notice \in Notices /\ notice[2][1] = v
    BY DEF Notices, Mounts, TypeOK
  <2>2. notices' = Append(notices, notice) /\ w \in mounted /\ w # v
    BY <1>3 DEF Unmount
  <2> HIDE DEF notice
  <2>3. /\ DOMAIN notices' = DOMAIN notices \cup {Len(notices) + 1}
        /\ notices'[Len(notices) + 1] = notice
        /\ \A k \in DOMAIN notices : notices'[k] = notices[k]
    BY <2>1, <2>2, PostedQueue DEF TypeOK
  <2>4. i \in DOMAIN notices /\ Announced("unmount", w, i)
    BY <2>1, <2>2, <2>3
  <2>5. PICK j \in DOMAIN notices : i < j /\ Announced("mount", w, j)
    BY <2>2, <2>4 DEF RemountComes
  <2>6. QED
    BY <2>3, <2>5
<1>4. CASE ServeNotice
  <2>1. notices # <<>> /\ notices' = Tail(notices) /\ mounted' = mounted
    BY <1>4 DEF ServeNotice, IPodMounted, IPodRemoved, Notified, worldVars
  <2>2. i + 1 \in DOMAIN notices /\ notices'[i] = notices[i + 1]
        /\ DOMAIN notices \subseteq Nat \ {0} /\ DOMAIN notices' \subseteq Nat \ {0}
    BY <2>1, ServedQueue DEF TypeOK
  <2>3. PICK j \in DOMAIN notices : i + 1 < j /\ Announced("mount", w, j)
    BY <2>1, <2>2 DEF RemountComes
  <2>4. j # 1 /\ i < j - 1
    BY <2>2, <2>3
  <2>5. j - 1 \in DOMAIN notices' /\ notices'[j - 1] = notices[j]
    BY <2>1, <2>4, StillQueued DEF TypeOK
  <2>6. QED
    BY <2>3, <2>4, <2>5
<1>5. CASE (\E f \in Fetchers : Fetch(f)) \/ FetchITunes \/ ServePost \/ Eject \/ UNCHANGED vars
  <2>1. UNCHANGED <<mounted, notices>>
    BY <1>5 DEF Fetch, TakeObjects, Read, PostLibrary, NextChunk, PostFinish, FetchITunes,
                ServePost, DidFetchLibrary, DidFetchITunes, FetcherDidFinish, Eject, vars, worldVars
  <2>2. QED
    BY <1>1, <2>1
<1>6. QED
  BY <1>2, <1>3, <1>4, <1>5 DEF Next, World

-----------------------------------------------------------------------------
(* The thread of the first fetcher.                                        *)

LEMMA LookedStep ==
  ASSUME TypeOK, MountsInOrder, AllLooked, [Next]_vars
  PROVE  AllLooked'
<1> USE FirstFetcher DEF AllLooked
<1>1. CASE UNCHANGED <<at, chunk>>
  BY <1>1
<1>2. ASSUME NEW f \in Fetchers, Fetch(f)
      PROVE  AllLooked'
  <2>1. CASE TakeObjects(f)
    BY <2>1 DEF TakeObjects, TypeOK
  <2>2. CASE Read(f)
    BY <2>2 DEF Read, TypeOK
  <2>3. CASE PostLibrary(f)
    BY <2>3 DEF PostLibrary, TypeOK
  <2>4. CASE NextChunk(f)
    BY <2>4 DEF NextChunk, TypeOK
  <2>5. CASE PostFinish(f)
    BY <2>5 DEF PostFinish, TypeOK
  <2>6. QED
    BY <1>2, <2>1, <2>2, <2>3, <2>4, <2>5 DEF Fetch
<1>3. CASE IPodMounted
  <2>1. chunk' = chunk
    BY <1>3 DEF IPodMounted
  <2>2. at' = at \/ (fetchers # 0 /\ at' = [at EXCEPT ![fetchers] = "loop"])
    BY <1>3, MountStep, LibrariesAssumption DEF TypeOK
  <2>3. QED
    BY <2>1, <2>2 DEF TypeOK
<1>4. CASE World \/ FetchITunes \/ IPodRemoved \/ Eject \/ ServePost \/ UNCHANGED vars
  <2>1. UNCHANGED <<at, chunk>>
    BY <1>4 DEF World, Mount, Unmount, FetchITunes, IPodRemoved, Eject, ServePost,
                DidFetchLibrary, DidFetchITunes, FetcherDidFinish, vars, threadVars
  <2>2. QED
    BY <1>1, <2>1
<1>5. QED
  BY <1>2, <1>3, <1>4 DEF Next, ServeNotice

LEMMA MadeStep ==
  ASSUME TypeOK, MountsInOrder, FetcherMade, [Next]_vars
  PROVE  FetcherMade'
<1> USE DEF FetcherMade
<1>1. CASE UNCHANGED <<fetcher, fetchers>>
  BY <1>1
<1>2. CASE IPodMounted
  BY <1>2, MountStep, LibrariesAssumption DEF Added, TypeOK
<1>3. CASE FetcherDidFinish
  BY <1>3 DEF FetcherDidFinish, fetcherVars
<1>4. CASE World \/ (\E f \in Fetchers : Fetch(f)) \/ FetchITunes \/ IPodRemoved
           \/ DidFetchLibrary \/ DidFetchITunes \/ Eject \/ UNCHANGED vars
  <2>1. UNCHANGED <<fetcher, fetchers>>
    BY <1>4 DEF World, Mount, Unmount, Fetch, TakeObjects, Read, PostLibrary, NextChunk,
                PostFinish, FetchITunes, IPodRemoved, DidFetchLibrary, DidFetchITunes, Eject, vars,
                fetcherVars
  <2>2. QED
    BY <1>1, <2>1
<1>5. QED
  BY <1>2, <1>3, <1>4 DEF Next, ServeNotice, ServePost

LEMMA LastStep ==
  ASSUME TypeOK, MountsInOrder, EndComesLast, [Next]_vars
  PROVE  EndComesLast'
<1> USE FirstFetcher DEF IsLibrary
<1>1. CASE UNCHANGED mail /\ (at'[0] = "ended" => at[0] = "ended")
  BY <1>1 DEF EndComesLast
<1>2. ASSUME NEW post \in Posts, mail' = Append(mail, post), at'[0] = at[0],
             at[0] = "ended" => ~(post[1] = "library" /\ post[2] = 0)
      PROVE  EndComesLast'
  <2>1. /\ DOMAIN mail' = DOMAIN mail \cup {Len(mail) + 1}
        /\ mail'[Len(mail) + 1] = post
        /\ \A k \in DOMAIN mail : mail'[k] = mail[k]
    BY <1>2, PostedQueue DEF TypeOK
  <2>2. QED
    BY <1>2, <2>1 DEF EndComesLast
<1>3. ASSUME NEW f \in Fetchers, Fetch(f)
      PROVE  EndComesLast'
  <2>1. CASE TakeObjects(f) \/ Read(f) \/ NextChunk(f)
    BY <1>1, <2>1 DEF TakeObjects, Read, NextChunk, TypeOK
  <2>2. CASE PostLibrary(f)
    <3> DEFINE post == <<"library", f, Head(chunk[f])>>
    <3>1. post \in Posts /\ post[1] = "library" /\ post[2] = f
      BY <2>2 DEF PostLibrary, TypeOK, Posts
    <3>2. mail' = Append(mail, post)
      BY <2>2 DEF PostLibrary
    <3> HIDE DEF post
    <3>3. CASE f = 0
      BY <2>2, <3>3 DEF PostLibrary, TypeOK, EndComesLast
    <3>4. CASE f # 0
      BY <1>2, <2>2, <3>1, <3>2, <3>4 DEF PostLibrary, TypeOK
    <3>5. QED
      BY <3>3, <3>4
  <2>3. CASE PostFinish(f)
    <3> DEFINE post == <<"finished", f>>
    <3>1. post \in Posts /\ post[1] = "finished"
      BY DEF Posts
    <3>2. mail' = Append(mail, post)
      BY <2>3 DEF PostFinish
    <3>3. CASE f = 0
      <4>1. /\ DOMAIN mail' = DOMAIN mail \cup {Len(mail) + 1}
            /\ mail'[Len(mail) + 1] = <<"finished", 0>>
            /\ \A k \in DOMAIN mail : k < Len(mail) + 1
        BY <3>1, <3>2, <3>3, PostedQueue DEF TypeOK
      <4>2. QED
        BY <4>1 DEF EndComesLast
    <3>4. CASE f # 0
      <4>1. at'[0] = at[0]
        BY <2>3, <3>4 DEF PostFinish, TypeOK
      <4> HIDE DEF post
      <4>2. QED
        BY <1>2, <3>1, <3>2, <4>1
    <3>5. QED
      BY <3>3, <3>4
  <2>4. QED
    BY <1>3, <2>1, <2>2, <2>3 DEF Fetch
<1>4. CASE FetchITunes
  <2> DEFINE post == <<"iTunes">>
  <2>1. post \in Posts /\ post[1] = "iTunes"
    BY DEF Posts
  <2>2. mail' = Append(mail, post) /\ at' = at
    BY <1>4 DEF FetchITunes, threadVars
  <2> HIDE DEF post
  <2>3. QED
    BY <1>2, <2>1, <2>2
<1>5. CASE ServePost
  <2>1. mail # <<>> /\ mail' = Tail(mail) /\ at' = at
    BY <1>5 DEF ServePost, DidFetchLibrary, DidFetchITunes, FetcherDidFinish, Posted,
                threadVars
  <2> SUFFICES ASSUME at[0] = "ended", NEW i \in DOMAIN mail', IsLibrary(i)'
               PROVE  \E j \in DOMAIN mail' : i < j /\ mail'[j] = <<"finished", 0>>
    BY <2>1 DEF EndComesLast
  <2>2. i + 1 \in DOMAIN mail /\ mail'[i] = mail[i + 1]
        /\ DOMAIN mail \subseteq Nat \ {0} /\ DOMAIN mail' \subseteq Nat \ {0}
    BY <2>1, ServedQueue DEF TypeOK
  <2>3. PICK j \in DOMAIN mail : i + 1 < j /\ mail[j] = <<"finished", 0>>
    BY <2>2 DEF EndComesLast
  <2>4. j # 1 /\ i < j - 1
    BY <2>2, <2>3
  <2>5. j - 1 \in DOMAIN mail' /\ mail'[j - 1] = mail[j]
    BY <2>1, <2>4, StillQueued DEF TypeOK
  <2>6. QED
    BY <2>3, <2>4, <2>5
<1>6. CASE IPodMounted
  <2>1. mail' = mail /\ (at' = at \/ (fetchers # 0 /\ at' = [at EXCEPT ![fetchers] = "loop"]))
    BY <1>6, MountStep, LibrariesAssumption DEF TypeOK
  <2>2. QED
    BY <1>1, <2>1 DEF TypeOK
<1>7. CASE World \/ IPodRemoved \/ Eject \/ UNCHANGED vars
  BY <1>1, <1>7 DEF World, Mount, Unmount, IPodRemoved, Eject, vars, threadVars
<1>8. QED
  BY <1>3, <1>4, <1>5, <1>6, <1>7 DEF Next, ServeNotice

-----------------------------------------------------------------------------
(* No iPod is forgotten on its way.                                        *)

\* The world outside.
LEMMA WorldForgetsNone ==
  ASSUME TypeOK, NoneForgotten, NEW v \in Volumes, Mount(v) \/ Unmount(v)
  PROVE  NoneForgotten'
<1> SUFFICES ASSUME fetchers' = 1, NEW w \in (mounted' \cap IPods) \ ejected'
             PROVE  Due(w)'
  BY DEF NoneForgotten
<1>1. PICK notice \in Notices :
        /\ notices' = Append(notices, notice)
        /\ w \in mounted \ ejected \/ (notice[1] = "mount" /\ notice[2][1] = w)
  <2>1. CASE Mount(v)
    <3>1. <<"mount", <<v, plugs'>>>> \in Notices
      BY <2>1, LibrariesAssumption DEF Mount, Notices, Mounts, TypeOK
    <3>2. QED
      BY <2>1, <3>1 DEF Mount
  <2>2. CASE Unmount(v)
    <3>1. <<"unmount", <<v, plugs>>>> \in Notices
      BY DEF Notices, Mounts, TypeOK
    <3>2. QED
      BY <2>2, <3>1 DEF Unmount, shownVars
  <2>3. QED
    BY <2>1, <2>2
<1>2. /\ DOMAIN notices' = DOMAIN notices \cup {Len(notices) + 1}
      /\ notices'[Len(notices) + 1] = notice
      /\ \A k \in DOMAIN notices : notices'[k] = notices[k]
  BY <1>1, PostedQueue DEF TypeOK
<1>3. UNCHANGED <<mail, objects, chunk, fetchers, iPodLibraries>>
  BY DEF Mount, Unmount, threadVars, fetcherVars, shownVars
<1>4. CASE w \in mounted \ ejected
  <2>1. Due(w)
    BY <1>3, <1>4 DEF NoneForgotten
  <2>2. QED
    BY <1>2, <1>3, <2>1 DEF Due, Announced, IsLibrary
<1>5. CASE notice[1] = "mount" /\ notice[2][1] = w
  BY <1>2, <1>5 DEF Due, Announced
<1>6. QED
  BY <1>1, <1>4, <1>5

\* The threads: what is taken is looked at, and what is mounted is posted.
LEMMA FetchForgetsNone ==
  ASSUME TypeOK, AllLooked, NoneForgotten, NEW f \in Fetchers, Fetch(f)
  PROVE  NoneForgotten'
<1> SUFFICES ASSUME fetchers' = 1, NEW v \in (mounted' \cap IPods) \ ejected'
             PROVE  Due(v)'
  BY DEF NoneForgotten
<1> USE FirstFetcher
<1>1. UNCHANGED <<mounted, notices, fetchers, iPodLibraries, ejected>>
  BY DEF Fetch, TakeObjects, Read, PostLibrary, NextChunk, PostFinish, worldVars,
         fetcherVars, shownVars
<1>2. Due(v) /\ v \in mounted \cap IPods
  BY <1>1 DEF NoneForgotten
<1>3. ASSUME UNCHANGED mail,
             Has(objects[0], v) \/ Has(chunk[0], v) => (Has(objects[0], v) \/ Has(chunk[0], v))'
      PROVE  Due(v)'
  BY <1>1, <1>2, <1>3 DEF Due, Announced, IsLibrary
<1>4. CASE TakeObjects(f)
  <2>1. CASE f = 0
    <3>1. chunk[0] = <<>> /\ chunk'[0] = objects[0] /\ mail' = mail
      BY <1>4, <2>1 DEF TakeObjects, AllLooked, TypeOK
    <3>2. ~Has(chunk[0], v)
      BY <3>1 DEF Has
    <3>3. QED
      BY <1>3, <3>1, <3>2 DEF Has
  <2>2. CASE f # 0
    BY <1>3, <1>4, <2>2 DEF TakeObjects, TypeOK, Has
  <2>3. QED
    BY <2>1, <2>2
<1>5. CASE Read(f)
  <2>1. objects' = objects /\ mail' = mail
    BY <1>5 DEF Read, fetcherVars
  <2>2. CASE chunk'[0] = chunk[0]
    BY <1>3, <2>1, <2>2 DEF Has
  <2>3. CASE chunk'[0] # chunk[0]
    <3>1. /\ chunk[0] # <<>> /\ chunk'[0] = Tail(chunk[0])
          /\ Head(chunk[0])[1] \notin mounted \cap IPods
          /\ chunk[0] \in Seq(Mounts)
      BY <1>5, <2>3 DEF Read, TypeOK
    <3>2. Has(chunk[0], v) => Has(chunk'[0], v)
      BY <1>2, <3>1, TailHas
    <3>3. QED
      BY <1>3, <2>1, <3>2 DEF Has
  <2>4. QED
    BY <2>2, <2>3
<1>6. CASE PostLibrary(f)
  <2> DEFINE post == <<"library", f, Head(chunk[f])>>
  <2>1. /\ post \in Posts /\ post[1] = "library" /\ post[2] = f /\ post[3] = Head(chunk[f])
        /\ chunk[f] # <<>> /\ chunk[f] \in Seq(Mounts)
    BY <1>6 DEF PostLibrary, TypeOK, Posts
  <2>2. mail' = Append(mail, post) /\ objects' = objects
    BY <1>6 DEF PostLibrary, fetcherVars
  <2> HIDE DEF post
  <2>3. /\ DOMAIN mail' = DOMAIN mail \cup {Len(mail) + 1}
        /\ mail'[Len(mail) + 1] = post
        /\ \A k \in DOMAIN mail : mail'[k] = mail[k]
    <3>1. mail \in Seq(Posts) /\ post \in Posts /\ mail' = Append(mail, post)
      BY <2>1, <2>2 DEF TypeOK
    <3>2. QED
      BY <3>1, PostedQueue
  <2>4. Has(chunk[0], v) => Has(chunk'[0], v) \/ (post[2] = 0 /\ post[3][1] = v)
    <3>1. CASE f = 0
      <4>1. chunk'[0] = Tail(chunk[0])
        BY <1>6, <3>1 DEF PostLibrary, TypeOK
      <4>2. QED
        BY <2>1, <3>1, <4>1, TailHas
    <3>2. CASE f # 0
      BY <1>6, <3>2 DEF PostLibrary, TypeOK
    <3>3. QED
      BY <3>1, <3>2
  <2>5. CASE Has(chunk[0], v) /\ ~Has(chunk'[0], v)
    BY <2>1, <2>3, <2>4, <2>5 DEF Due, IsLibrary
  <2>6. CASE ~(Has(chunk[0], v) /\ ~Has(chunk'[0], v))
    BY <1>1, <1>2, <2>2, <2>3, <2>6 DEF Due, Announced, IsLibrary, Has
  <2>7. QED
    BY <2>5, <2>6
<1>7. CASE NextChunk(f)
  BY <1>3, <1>7 DEF NextChunk, fetcherVars, Has
<1>8. CASE PostFinish(f)
  <2> DEFINE post == <<"finished", f>>
  <2>1. post \in Posts
    BY DEF Posts
  <2>2. mail' = Append(mail, post) /\ UNCHANGED <<objects, chunk>>
    BY <1>8 DEF PostFinish, fetcherVars
  <2> HIDE DEF post
  <2>3. \A k \in DOMAIN mail : k \in DOMAIN mail' /\ mail'[k] = mail[k]
    BY <2>1, <2>2, PostedQueue DEF TypeOK
  <2>4. QED
    BY <1>1, <1>2, <2>2, <2>3 DEF Due, Announced, IsLibrary
<1>9. QED
  BY <1>4, <1>5, <1>6, <1>7, <1>8 DEF Fetch

\* The notifications: a removal that is served is followed by another mount.
LEMMA NoticeForgetsNone ==
  ASSUME TypeOK, MountsInOrder, FetcherMade, RemountComes, NoneForgotten, ServeNotice
  PROVE  NoneForgotten'
<1> SUFFICES ASSUME fetchers' = 1, NEW v \in (mounted' \cap IPods) \ ejected'
             PROVE  Due(v)'
  BY DEF NoneForgotten
<1> USE FirstFetcher
<1>1. /\ notices # <<>> /\ notices' = Tail(notices) /\ notices \in Seq(Notices)
      /\ UNCHANGED <<mounted, mail, chunk, ejected>>
  BY DEF ServeNotice, IPodMounted, IPodRemoved, Notified, TypeOK, worldVars, threadVars,
         shownVars
<1>2. Head(notices) = notices[1] /\ 1 \in DOMAIN notices /\ DOMAIN notices \subseteq Nat \ {0}
      /\ Head(notices) \in Notices
  BY <1>1, ServedQueue
<1>3. ASSUME NEW i \in DOMAIN notices, Announced("mount", v, i), i # 1
      PROVE  Due(v)'
  <2>1. i - 1 \in DOMAIN notices' /\ notices'[i - 1] = notices[i]
    BY <1>1, <1>3, StillQueued
  <2>2. QED
    BY <1>3, <2>1 DEF Due, Announced
<1>4. CASE IPodMounted
  <2>1. Added /\ fetcher = 0 /\ fetchers = 1
    BY <1>4, MountStep, LibrariesAssumption DEF FetcherMade, Added, TypeOK, Fetchers
  <2>2. objects'[0] = Append(objects[0], Head(notices)[2]) /\ iPodLibraries' = iPodLibraries
    BY <1>4, <2>1 DEF IPodMounted, shownVars, TypeOK
  <2>3. Head(notices)[2] \in Mounts /\ objects[0] \in Seq(Mounts)
    BY <1>2, NoticeShape DEF TypeOK
  <2>4. Has(objects[0], v) \/ Head(notices)[2][1] = v => Has(objects'[0], v)
    BY <2>2, <2>3, AppendHas
  <2>5. Due(v)
    BY <1>1, <2>1 DEF NoneForgotten
  <2>6. CASE \E i \in DOMAIN notices : Announced("mount", v, i)
    BY <1>2, <1>3, <2>4, <2>6 DEF Due, Announced, Has
  <2>7. CASE ~(\E i \in DOMAIN notices : Announced("mount", v, i))
    BY <1>1, <2>2, <2>4, <2>5, <2>7 DEF Due, IsLibrary, Has
  <2>8. QED
    BY <2>6, <2>7
<1>5. CASE IPodRemoved
  <2>1. objects' = objects /\ fetchers = 1 /\ Head(notices)[1] = "unmount"
    BY <1>5 DEF IPodRemoved, fetcherVars, Notified
  <2>2. CASE Head(notices)[2][1] = v
    <3>1. Announced("unmount", v, 1)
      BY <1>2, <2>1, <2>2 DEF Announced
    <3>2. \E j \in DOMAIN notices : 1 < j /\ Announced("mount", v, j)
      BY <1>1, <1>2, <3>1 DEF RemountComes
    <3>3. QED
      BY <1>2, <1>3, <3>2
  <2>3. CASE Head(notices)[2][1] # v
    <3>1. \A l \in iPodLibraries : l[1] = v => l \in iPodLibraries'
      BY <1>5, <2>3 DEF IPodRemoved, RemoveIPod
    <3>2. Due(v)
      BY <1>1, <2>1 DEF NoneForgotten
    <3>3. CASE \E i \in DOMAIN notices : Announced("mount", v, i)
      BY <1>2, <1>3, <2>1, <3>3 DEF Announced
    <3>4. CASE ~(\E i \in DOMAIN notices : Announced("mount", v, i))
      BY <1>1, <2>1, <3>1, <3>2, <3>4 DEF Due, IsLibrary, Has
    <3>5. QED
      BY <3>3, <3>4
  <2>4. QED
    BY <2>2, <2>3
<1>6. QED
  BY <1>4, <1>5 DEF ServeNotice

\* The posts: as long as a library of the first fetcher is on its way, the
\* controller has not let go of the fetcher.
LEMMA PostForgetsNone ==
  ASSUME TypeOK, NewestHeard, EndComesLast, NoneForgotten, ServePost
  PROVE  NoneForgotten'
<1> SUFFICES ASSUME fetchers' = 1, NEW v \in (mounted' \cap IPods) \ ejected'
             PROVE  Due(v)'
  BY DEF NoneForgotten
<1> USE FirstFetcher
<1>1. /\ mail # <<>> /\ mail' = Tail(mail) /\ mail \in Seq(Posts)
      /\ UNCHANGED <<mounted, notices, objects, chunk, fetchers, ejected>>
  BY DEF ServePost, DidFetchLibrary, DidFetchITunes, FetcherDidFinish, Posted, TypeOK,
         worldVars, threadVars, fetcherVars, shownVars
<1>2. iPodLibraries \subseteq iPodLibraries'
  BY DEF ServePost, DidFetchLibrary, DidFetchITunes, FetcherDidFinish, AddIPod, shownVars
<1>3. Head(mail) = mail[1] /\ 1 \in DOMAIN mail
  BY <1>1, ServedQueue
<1>4. Due(v)
  BY <1>1 DEF NoneForgotten
<1>5. CASE IsLibrary(1) /\ mail[1][3][1] = v
  <2>1. DidFetchLibrary
    BY <1>3, <1>5 DEF ServePost, DidFetchITunes, FetcherDidFinish, Posted, IsLibrary
  <2>2. fetcher = 0
    <3>1. at[0] = "ended" => \E j \in DOMAIN mail : mail[j] = <<"finished", 0>>
      BY <1>3, <1>5 DEF EndComesLast
    <3>2. Newest = 0
      BY <1>1 DEF Newest
    <3>3. QED
      BY <3>1, <3>2 DEF NewestHeard
  <2>3. Head(mail)[3] \in iPodLibraries'
    BY <1>3, <1>5, <2>1, <2>2 DEF DidFetchLibrary, AddIPod, IsLibrary
  <2>4. QED
    BY <1>3, <1>5, <2>3 DEF Due
<1>6. CASE ~(IsLibrary(1) /\ mail[1][3][1] = v)
  <2>1. ASSUME NEW i \in DOMAIN mail, IsLibrary(i), mail[i][3][1] = v
        PROVE  Due(v)'
    <3>1. i # 1
      BY <1>6, <2>1
    <3>2. i - 1 \in DOMAIN mail' /\ mail'[i - 1] = mail[i]
      BY <1>1, <3>1, StillQueued
    <3>3. QED
      BY <2>1, <3>2 DEF Due, IsLibrary
  <2>2. CASE ~(\E i \in DOMAIN mail : IsLibrary(i) /\ mail[i][3][1] = v)
    BY <1>1, <1>2, <1>4, <2>2 DEF Due, Announced, Has
  <2>3. QED
    BY <2>1, <2>2
<1>7. QED
  BY <1>5, <1>6

\* The user: a device that is ejected is no longer wanted.
LEMMA EjectForgetsNone == NoneForgotten /\ Eject => NoneForgotten'
<1> SUFFICES ASSUME NoneForgotten, Eject, fetchers' = 1,
                    NEW v \in (mounted' \cap IPods) \ ejected'
             PROVE  Due(v)'
  BY DEF NoneForgotten
<1>1. PICK l \in iPodLibraries : iPodLibraries' = iPodLibraries \ {l} /\ ejected' = ejected \cup {l[1]}
  BY EjectOnlyShows
<1>2. UNCHANGED <<mounted, notices, mail, chunk, fetchers, objects>>
  BY EjectOnlyShows
<1>3. Due(v) /\ \A k \in iPodLibraries : k[1] = v => k \in iPodLibraries'
  BY <1>1, <1>2 DEF NoneForgotten
<1>4. QED
  BY <1>2, <1>3 DEF Due, Announced, IsLibrary, Has

LEMMA ForgottenStep ==
  ASSUME FirstInv, [Next]_vars
  PROVE  NoneForgotten'
<1> USE DEF FirstInv, LibInv
<1>1. CASE World
  BY <1>1, WorldForgetsNone DEF World
<1>2. CASE \E f \in Fetchers : Fetch(f)
  BY <1>2, FetchForgetsNone
<1>3. CASE FetchITunes
  <2> DEFINE post == <<"iTunes">>
  <2>1. post \in Posts
    BY DEF Posts
  <2>2. mail' = Append(mail, post)
        /\ UNCHANGED <<mounted, notices, objects, chunk, fetchers, iPodLibraries, ejected>>
    BY <1>3 DEF FetchITunes, worldVars, threadVars, fetcherVars
  <2> HIDE DEF post
  <2>3. \A k \in DOMAIN mail : k \in DOMAIN mail' /\ mail'[k] = mail[k]
    BY <2>1, <2>2, PostedQueue DEF TypeOK
  <2>4. QED
    BY <2>2, <2>3 DEF NoneForgotten, Due, Announced, IsLibrary, Has
<1>4. CASE ServeNotice
  BY <1>4, NoticeForgetsNone
<1>5. CASE ServePost
  BY <1>5, PostForgetsNone
<1>6. CASE UNCHANGED vars
  BY <1>6 DEF vars, worldVars, threadVars, fetcherVars, shownVars, NoneForgotten, Due,
              Announced, IsLibrary, Has
<1>7. CASE Eject
  BY <1>7, EjectForgetsNone
<1>8. QED
  BY <1>1, <1>2, <1>3, <1>4, <1>5, <1>6, <1>7 DEF Next

\* A list of a finite set without repetitions has all of it.
LEMMA AllListed ==
  ASSUME NEW S, IsFiniteSet(S), NEW q \in [1..Cardinality(S) -> S],
         \A i, j \in 1..Cardinality(S) : i # j => q[i] # q[j], NEW e \in S
  PROVE  \E i \in DOMAIN q : q[i] = e
<1> SUFFICES ASSUME \A i \in 1..Cardinality(S) : q[i] # e PROVE FALSE
  OBVIOUS
<1> DEFINE n == Cardinality(S)
<1>1. n \in Nat
  BY FS_CardinalityType
<1>2. IsFiniteSet(S \ {e}) /\ Cardinality(S \ {e}) = n - 1
  BY FS_RemoveElement
<1>3. IsFiniteSet(1..n) /\ Cardinality(1..n) = n
  <2>1. Cardinality(1..n) = IF 1 > n THEN 0 ELSE n - 1 + 1
    BY <1>1, FS_Interval
  <2>2. QED
    BY <1>1, <2>1, FS_Interval
<1>4. q \in [1..n -> S \ {e}]
  OBVIOUS
<1>5. \E i, j \in 1..n : i # j /\ q[i] = q[j]
  <2> HIDE DEF n
  <2>1. n - 1 < n
    BY <1>1
  <2>2. QED
    BY <1>2, <1>3, <1>4, <2>1, FS_PigeonHole
<1>6. QED
  BY <1>5

LEMMA FirstInvInit == Init => FirstInv
<1> SUFFICES ASSUME Init PROVE FirstInv
  OBVIOUS
<1>1. LibInv
  BY LibInvInit
<1>2. RemountComes /\ AllLooked /\ FetcherMade /\ EndComesLast
  <2>1. \A v, i : i \in DOMAIN notices => ~Announced("unmount", v, i)
    BY DEF Init, Announced
  <2>2. RemountComes
    BY <2>1 DEF RemountComes
  <2>3. AllLooked /\ FetcherMade /\ EndComesLast
    BY FirstFetcher, LibrariesAssumption DEF Init, AllLooked, FetcherMade, EndComesLast
  <2>4. QED
    BY <2>2, <2>3
<1>3. ASSUME NEW v \in mounted
      PROVE  Has(objects[0], v)
  <2>1. PICK possible \in SetToSeqs(mounted \X {0}) : objects[0] = possible
    BY FirstFetcher DEF Init
  <2>2. PICK i \in DOMAIN possible : possible[i] = <<v, 0>>
    <3>1. possible \in [1..Cardinality(mounted \X {0}) -> mounted \X {0}]
          /\ \A i, j \in 1..Cardinality(mounted \X {0}) : i # j => possible[i] # possible[j]
      BY <2>1 DEF SetToSeqs
    <3>2. IsFiniteSet(mounted \X {0})
      <4>1. IsFiniteSet(mounted) /\ IsFiniteSet({0})
        BY LibrariesAssumption, FS_Subset, FS_Singleton DEF Init
      <4>2. QED
        BY <4>1, FS_Product
    <3>3. <<v, 0>> \in mounted \X {0}
      OBVIOUS
    <3> DEFINE S == mounted \X {0}
               e == <<v, 0>>
    <3>4. IsFiniteSet(S) /\ possible \in [1..Cardinality(S) -> S] /\ e \in S
          /\ \A i, j \in 1..Cardinality(S) : i # j => possible[i] # possible[j]
      BY <3>1, <3>2, <3>3
    <3> HIDE DEF S, e
    <3>5. \E i \in DOMAIN possible : possible[i] = e
      BY <3>4, AllListed
    <3>6. QED
      BY <3>5 DEF e
  <2>3. QED
    BY <2>1, <2>2 DEF Has
<1>4. NoneForgotten
  BY <1>3 DEF NoneForgotten, Due
<1>5. QED
  BY <1>1, <1>2, <1>4 DEF FirstInv

\* As long as the first fetcher has not been replaced, every iPod that is
\* mounted is shown when all has been served, whichever notification of its
\* coming and going is late (SELibraryController.m:211-228, 268-285).
THEOREM FirstShowsAll == Spec => []FirstFetcherShowsAll
<1>1. FirstInv /\ [Next]_vars => FirstInv'
  BY LibInvStep, RemountStep, LookedStep, MadeStep, LastStep, ForgottenStep DEF FirstInv,
       LibInv
<1>2. FirstInv => FirstFetcherShowsAll
  <2> SUFFICES ASSUME FirstInv, Settled, fetchers = 1, NEW v \in (mounted \cap IPods) \ ejected
               PROVE  \E l \in iPodLibraries : l[1] = v
    BY DEF FirstFetcherShowsAll
  <2>1. at[0] = "ended"
    BY FirstFetcher DEF Settled, FirstInv, AllLooked
  <2>2. chunk[0] = <<>> /\ notices = <<>> /\ mail = <<>>
    BY <2>1 DEF FirstInv, AllLooked, Settled
  <2>3. objects[0] = <<>> /\ Due(v)
    BY FirstFetcher, <2>1 DEF FirstInv, LibInv, Closed, NoneForgotten
  <2>4. QED
    BY <2>2, <2>3 DEF Due, Has
<1>3. QED
  BY <1>1, <1>2, FirstInvInit, PTL DEF Spec

-----------------------------------------------------------------------------
(* The volumes in a line.                                                  *)
(*                                                                         *)
(* Each mount goes through four queues: the notices, the objects of a      *)
(* fetcher, those the fetcher has taken, and the posts. LineInv says that  *)
(* only the newest fetcher has any, that each queue is in the order of the *)
(* mounts, and that what is in a queue comes before what is in the queues  *)
(* behind it. So what is looked at, or served, is always the first.        *)

Before(m, n) == m # n /\ m[2] <= n[2]
AllBefore(S, T) == \A m \in S, n \in T : Before(m, n)

Sorted(s) == \A i, j \in DOMAIN s : i < j => Before(s[i], s[j])
NamedSorted(queue, kind, place) ==
  \A i, j \in DOMAIN queue :
    i < j /\ queue[i][1] = kind /\ queue[j][1] = kind => Before(queue[i][place], queue[j][place])

\* The mounts in the four queues.
Arrived == Named(notices, "mount", 2)
InStore == Range(objects[Newest])
InHand == Range(chunk[Newest])
Fetched == Named(mail, "library", 3)

\* The controller holds the newest fetcher or none. The others are closing or
\* have ended, and have nothing.
OneReads ==
  /\ fetcher \in {Nil, Newest}
  /\ \A f \in Fetchers \ {Newest} :
       objects[f] = <<>> /\ chunk[f] = <<>> /\ at[f] \in {"unused", "finish", "ended"}
  /\ at[Newest] \notin {"read", "post"} => chunk[Newest] = <<>>
  /\ at[Newest] # "unused"
  /\ \A f \in Fetchers : canAddObjects[f] \/ at[f] \in {"finish", "ended"}

QueuesSorted ==
  /\ Sorted(chunk[Newest]) /\ Sorted(objects[Newest])
  /\ NamedSorted(notices, "mount", 2) /\ NamedSorted(mail, "library", 3)

LineSorted ==
  /\ AllBefore(Fetched, InHand \cup InStore \cup Arrived)
  /\ AllBefore(InHand, InStore \cup Arrived)
  /\ AllBefore(InStore, Arrived)
  /\ \A m \in Fetched \cup InHand \cup InStore \cup Arrived : m[2] \in 0..plugs

LineInv == LibInv /\ OneReads /\ QueuesSorted /\ LineSorted

\* The first of a sorted sequence comes before the others.
LEMMA SortedTail ==
  ASSUME NEW S, NEW q \in Seq(S), q # <<>>, Sorted(q)
  PROVE  /\ Head(q) \in S
         /\ Range(q) = {Head(q)} \cup Range(Tail(q))
         /\ AllBefore({Head(q)}, Range(Tail(q)))
         /\ Sorted(Tail(q))
<1>1. /\ Head(q) = q[1] /\ Head(q) \in S /\ 1 \in DOMAIN q
      /\ \A i \in DOMAIN Tail(q) : i + 1 \in DOMAIN q /\ Tail(q)[i] = q[i + 1]
      /\ DOMAIN Tail(q) \subseteq Nat \ {0}
  BY ServedQueue
<1>2. \A i \in DOMAIN q : i # 1 => i - 1 \in DOMAIN Tail(q) /\ Tail(q)[i - 1] = q[i]
  BY StillQueued
<1>3. Range(q) = {Head(q)} \cup Range(Tail(q))
  <2>1. Range(Tail(q)) \subseteq Range(q) /\ Head(q) \in Range(q)
    BY <1>1 DEF Range
  <2>2. \A i \in DOMAIN q : q[i] = Head(q) \/ q[i] \in Range(Tail(q))
    BY <1>1, <1>2 DEF Range
  <2>3. \A e \in Range(q) : e = Head(q) \/ e \in Range(Tail(q))
    BY <2>2 DEF Range
  <2>4. QED
    BY <2>1, <2>3
<1>4. \A i \in DOMAIN Tail(q) : 1 < i + 1
  BY <1>1
<1>5. AllBefore({Head(q)}, Range(Tail(q)))
  BY <1>1, <1>4 DEF Range, AllBefore, Sorted
<1>6. \A i, j \in DOMAIN Tail(q) : i < j => i + 1 < j + 1
  BY <1>1
<1>7. Sorted(Tail(q))
  BY <1>1, <1>6 DEF Sorted
<1>8. QED
  BY <1>1, <1>3, <1>5, <1>7

LEMMA SortedAppend ==
  ASSUME NEW S, NEW q \in Seq(S), NEW e \in S, Sorted(q), AllBefore(Range(q), {e})
  PROVE  Sorted(Append(q, e)) /\ Range(Append(q, e)) = Range(q) \cup {e}
<1> DEFINE r == Append(q, e)
<1>1. /\ DOMAIN r = DOMAIN q \cup {Len(q) + 1} /\ r[Len(q) + 1] = e
      /\ \A i \in DOMAIN q : r[i] = q[i] /\ i < Len(q) + 1
      /\ Len(q) \in Nat /\ DOMAIN q \subseteq Nat
  BY PostedQueue
<1> HIDE DEF r
<1>2. Range(r) = Range(q) \cup {e}
  BY <1>1 DEF Range
<1>3. ASSUME NEW i \in DOMAIN r, NEW j \in DOMAIN r, i < j PROVE Before(r[i], r[j])
  <2>1. i \in DOMAIN q
    BY <1>1, <1>3
  <2>2. CASE j \in DOMAIN q
    BY <1>1, <1>3, <2>1, <2>2 DEF Sorted
  <2>3. CASE j = Len(q) + 1
    BY <1>1, <2>1, <2>3 DEF AllBefore, Range
  <2>4. QED
    BY <1>1, <2>2, <2>3
<1>4. QED
  BY <1>2, <1>3 DEF Sorted, r

\* The same for the entries of a kind.
LEMMA NamedTail ==
  ASSUME NEW S, NEW q \in Seq(S), q # <<>>, NEW kind, NEW place, NamedSorted(q, kind, place)
  PROVE  /\ NamedSorted(Tail(q), kind, place)
         /\ Head(q)[1] = kind =>
              /\ Named(q, kind, place) = {Head(q)[place]} \cup Named(Tail(q), kind, place)
              /\ AllBefore({Head(q)[place]}, Named(Tail(q), kind, place))
         /\ Head(q)[1] # kind => Named(Tail(q), kind, place) = Named(q, kind, place)
<1>1. /\ Head(q) = q[1] /\ 1 \in DOMAIN q
      /\ \A i \in DOMAIN Tail(q) : i + 1 \in DOMAIN q /\ Tail(q)[i] = q[i + 1]
      /\ DOMAIN Tail(q) \subseteq Nat \ {0}
  BY ServedQueue
<1>2. \A i \in DOMAIN q : i # 1 => i - 1 \in DOMAIN Tail(q) /\ Tail(q)[i - 1] = q[i]
  BY StillQueued
<1>3. \A i, j \in DOMAIN Tail(q) : 1 < i + 1 /\ (i < j => i + 1 < j + 1)
  BY <1>1
<1>4. NamedSorted(Tail(q), kind, place)
  BY <1>1, <1>3 DEF NamedSorted
<1>5. Named(Tail(q), kind, place) \subseteq Named(q, kind, place)
  BY <1>1 DEF Named
<1>6. \A m \in Named(q, kind, place) :
        m \in Named(Tail(q), kind, place) \/ (Head(q)[1] = kind /\ m = Head(q)[place])
  <2> SUFFICES ASSUME NEW i \in DOMAIN q, q[i][1] = kind, i # 1
               PROVE  q[i][place] \in Named(Tail(q), kind, place)
    BY <1>1 DEF Named
  <2>1. i - 1 \in DOMAIN Tail(q) /\ Tail(q)[i - 1] = q[i]
    BY <1>2
  <2>2. \A k \in DOMAIN Tail(q) : Tail(q)[k][1] = kind =>
          Tail(q)[k][place] \in Named(Tail(q), kind, place)
    BY DEF Named
  <2>3. QED
    BY <2>1, <2>2
<1>7. Head(q)[1] = kind => Head(q)[place] \in Named(q, kind, place)
  BY <1>1 DEF Named
<1>8. Head(q)[1] = kind => AllBefore({Head(q)[place]}, Named(Tail(q), kind, place))
  BY <1>1, <1>3 DEF AllBefore, Named, NamedSorted
<1>9. QED
  BY <1>4, <1>5, <1>6, <1>7, <1>8

LEMMA NamedAppend ==
  ASSUME NEW S, NEW q \in Seq(S), NEW e \in S, NEW kind, NEW place, NamedSorted(q, kind, place),
         AllBefore(Named(q, kind, place), {e[place]})
  PROVE  /\ NamedSorted(Append(q, e), kind, place)
         /\ Named(Append(q, e), kind, place) =
              Named(q, kind, place) \cup (IF e[1] = kind THEN {e[place]} ELSE {})
<1> DEFINE r == Append(q, e)
<1>1. /\ DOMAIN r = DOMAIN q \cup {Len(q) + 1} /\ r[Len(q) + 1] = e
      /\ \A i \in DOMAIN q : r[i] = q[i] /\ i < Len(q) + 1
      /\ Len(q) \in Nat /\ DOMAIN q \subseteq Nat
  BY PostedQueue
<1> HIDE DEF r
<1>2. Named(r, kind, place) = Named(q, kind, place) \cup (IF e[1] = kind THEN {e[place]} ELSE {})
  <2>1. Named(q, kind, place) \subseteq Named(r, kind, place)
    BY <1>1 DEF Named
  <2>2. e[1] = kind => e[place] \in Named(r, kind, place)
    BY <1>1 DEF Named
  <2>3. \A m \in Named(r, kind, place) :
          m \in Named(q, kind, place) \/ (e[1] = kind /\ m = e[place])
    BY <1>1 DEF Named
  <2>4. QED
    BY <2>1, <2>2, <2>3
<1>3. ASSUME NEW i \in DOMAIN r, NEW j \in DOMAIN r, i < j, r[i][1] = kind, r[j][1] = kind
      PROVE  Before(r[i][place], r[j][place])
  <2>1. i \in DOMAIN q
    BY <1>1, <1>3
  <2>2. CASE j \in DOMAIN q
    BY <1>1, <1>3, <2>1, <2>2 DEF NamedSorted
  <2>3. CASE j = Len(q) + 1
    <3>1. q[i][place] \in Named(q, kind, place)
      BY <1>1, <1>3, <2>1 DEF Named
    <3>2. QED
      BY <1>1, <2>1, <2>3, <3>1 DEF AllBefore
  <2>4. QED
    BY <1>1, <2>2, <2>3
<1>4. QED
  BY <1>2, <1>3 DEF NamedSorted, r

LEMMA OtherAppend ==
  ASSUME NEW S, NEW q \in Seq(S), NEW e \in S, NEW kind, NEW place, NamedSorted(q, kind, place),
         e[1] # kind
  PROVE  /\ NamedSorted(Append(q, e), kind, place)
         /\ Named(Append(q, e), kind, place) = Named(q, kind, place)
<1> DEFINE r == Append(q, e)
<1>1. /\ DOMAIN r = DOMAIN q \cup {Len(q) + 1} /\ r[Len(q) + 1] = e
      /\ \A i \in DOMAIN q : r[i] = q[i]
  BY PostedQueue
<1> HIDE DEF r
<1>2. \A i \in DOMAIN r : r[i][1] = kind => i \in DOMAIN q
  BY <1>1
<1>3. Named(r, kind, place) = Named(q, kind, place)
  <2>1. Named(q, kind, place) \subseteq Named(r, kind, place)
    BY <1>1 DEF Named
  <2>2. Named(r, kind, place) \subseteq Named(q, kind, place)
    BY <1>1, <1>2 DEF Named
  <2>3. QED
    BY <2>1, <2>2
<1>4. NamedSorted(r, kind, place)
  BY <1>1, <1>2 DEF NamedSorted
<1>5. QED
  BY <1>3, <1>4 DEF r

-----------------------------------------------------------------------------
(* The abstract state.                                                     *)

LEMMA NewestIsFetcher == TypeOK => Newest \in Fetchers /\ fetchers = Newest + 1
BY LibrariesAssumption DEF TypeOK, Newest, Fetchers

\* What has been accepted, the newest fetcher has, and it alone has one at hand.
ReadingIs ==
  /\ Accepted = InHand \cup InStore
  /\ AtHand = (IF at[Newest] = "post" THEN {Head(chunk[Newest])} ELSE {})

LEMMA ReadingNow == TypeOK /\ OneReads => ReadingIs
<1> SUFFICES ASSUME TypeOK, OneReads PROVE ReadingIs
  OBVIOUS
<1>1. Newest \in Fetchers
  BY NewestIsFetcher
<1>2. \A f \in Fetchers \ {Newest} :
        Range(objects[f]) = {} /\ Range(chunk[f]) = {} /\ at[f] # "post"
  BY DEF OneReads, Range
<1>3. Accepted = InHand \cup InStore
  BY <1>1, <1>2 DEF Accepted, InHand, InStore
<1>4. AtHand = (IF at[Newest] = "post" THEN {Head(chunk[Newest])} ELSE {})
  BY <1>1, <1>2 DEF AtHand
<1>5. QED
  BY <1>3, <1>4 DEF ReadingIs

LEMMA ReadingThen == TypeOK' /\ OneReads' => ReadingIs'
BY ReadingNow, PTL

\* The mounts in the line are mounts.
LEMMA LineMounts ==
  ASSUME TypeOK
  PROVE  /\ Fetched \subseteq Mounts /\ InHand \subseteq Mounts
         /\ InStore \subseteq Mounts /\ Arrived \subseteq Mounts
<1>1. Newest \in Fetchers
  BY NewestIsFetcher
<1>2. InHand \subseteq Mounts /\ InStore \subseteq Mounts
  <2>1. \A q \in Seq(Mounts) : Range(q) \subseteq Mounts
    BY LenProperties, ElementOfSeq DEF Range
  <2>2. QED
    BY <1>1, <2>1 DEF InHand, InStore, TypeOK
<1>3. Arrived \subseteq Mounts
  <2>1. \A i \in DOMAIN notices : notices[i] \in Notices
    BY LenProperties, ElementOfSeq DEF TypeOK
  <2>2. \A i \in DOMAIN notices : notices[i][2] \in Mounts
    BY <2>1, NoticeShape
  <2>3. QED
    BY <2>2 DEF Arrived, Named
<1>4. Fetched \subseteq Mounts
  <2>1. \A i \in DOMAIN mail : mail[i] \in Posts
    BY LenProperties, ElementOfSeq DEF TypeOK
  <2>2. \A i \in DOMAIN mail : mail[i][1] = "library" => mail[i][3] \in Mounts
    BY <2>1, PostShape
  <2>3. QED
    BY <2>2 DEF Fetched, Named
<1>5. QED
  BY <1>2, <1>3, <1>4

-----------------------------------------------------------------------------
(* The steps along the line, and what they are to the abstract reading.    *)

\* Nothing moves, or only within what is still waiting.
LEMMA ReadingStays ==
  ASSUME ReadingIs, ReadingIs',
         Arrived' \cup InStore' \cup InHand' = Arrived \cup InStore \cup InHand,
         AtHand' = AtHand, Fetched' = Fetched, UNCHANGED <<plugs, iPodLibraries>>
  PROVE  UNCHANGED Reading!vars
<1>1. Arrived' \cup Accepted' = Arrived \cup Accepted
  BY DEF ReadingIs
<1>2. (Arrived' \cup Accepted') \ AtHand' = (Arrived \cup Accepted) \ AtHand
  BY <1>1
<1>3. QED
  BY <1>2 DEF Reading!vars, Waiting, Arrived, Fetched

\* A step that leaves the line as it is.
LEMMA LineStays ==
  ASSUME LineInv, LibInv',
         UNCHANGED <<plugs, fetchers, objects, chunk, at, canAddObjects>>,
         fetcher' \in {Nil, fetcher},
         NamedSorted(notices', "mount", 2), Arrived' = Arrived,
         NamedSorted(mail', "library", 3), Fetched' = Fetched
  PROVE  /\ OneReads' /\ QueuesSorted' /\ LineSorted'
         /\ UNCHANGED iPodLibraries => UNCHANGED Reading!vars
         /\ AtHand' = AtHand /\ (Arrived \cup Accepted)' = Arrived \cup Accepted
<1>1. Newest' = Newest
  BY DEF Newest
<1>2. InStore' = InStore /\ InHand' = InHand
  BY <1>1 DEF InStore, InHand
<1>3. OneReads'
  BY <1>1 DEF LineInv, OneReads
<1>4. QueuesSorted' /\ LineSorted'
  BY <1>1, <1>2 DEF LineInv, QueuesSorted, LineSorted
<1>5. ReadingIs /\ ReadingIs'
  BY <1>3, ReadingNow, ReadingThen DEF LineInv, LibInv
<1>6. AtHand' = AtHand
  BY <1>1, <1>5 DEF ReadingIs
<1>7. Accepted' = Accepted
  BY <1>2, <1>5 DEF ReadingIs
<1>8. UNCHANGED iPodLibraries => UNCHANGED Reading!vars
  BY <1>2, <1>5, <1>6, ReadingStays
<1>9. QED
  BY <1>3, <1>4, <1>6, <1>7, <1>8

LEMMA MountLine ==
  ASSUME LineInv, LibInv', NEW v \in Volumes, Mount(v)
  PROVE  OneReads' /\ QueuesSorted' /\ LineSorted' /\ Reading!Next
<1> DEFINE e == <<v, plugs'>>
           notice == <<"mount", e>>
<1>1. /\ UNCHANGED <<fetchers, objects, chunk, at, canAddObjects, fetcher, mail, iPodLibraries>>
      /\ plugs' = plugs + 1 /\ plugs \in Nat /\ plugs' \in 0..MaxPlugs
      /\ notices' = Append(notices, notice)
  BY LibrariesAssumption
     DEF Mount, LineInv, LibInv, TypeOK, fetcherVars, threadVars, shownVars
<1>2. notice \in Notices /\ notice[1] = "mount" /\ notice[2] = e /\ e[2] = plugs + 1
      /\ notices \in Seq(Notices)
  BY <1>1 DEF Notices, Mounts, LineInv, LibInv, TypeOK
<1>3. \A m \in Fetched \cup InHand \cup InStore \cup Arrived : Before(m, e)
  <2>1. \A m \in Fetched \cup InHand \cup InStore \cup Arrived : m[2] \in 0..plugs
    BY DEF LineInv, LineSorted
  <2>2. QED
    BY <1>1, <1>2, <2>1 DEF Before
<1> HIDE DEF notice
<1>4. NamedSorted(notices', "mount", 2) /\ Arrived' = Arrived \cup {e}
  <2>1. AllBefore(Named(notices, "mount", 2), {notice[2]})
    BY <1>2, <1>3 DEF AllBefore, Arrived
  <2>2. /\ NamedSorted(notices, "mount", 2) /\ notices \in Seq(Notices)
        /\ notice \in Notices /\ notice[1] = "mount"
    BY <1>2 DEF LineInv, QueuesSorted
  <2> HIDE DEF e
  <2>3. /\ NamedSorted(Append(notices, notice), "mount", 2)
        /\ Named(Append(notices, notice), "mount", 2) =
             Named(notices, "mount", 2) \cup (IF notice[1] = "mount" THEN {notice[2]} ELSE {})
    BY <2>1, <2>2, NamedAppend
  <2>4. QED
    BY <1>1, <1>2, <2>3 DEF Arrived
<1> HIDE DEF e
<1>5. Newest' = Newest
  BY <1>1 DEF Newest
<1>6. InStore' = InStore /\ InHand' = InHand /\ Fetched' = Fetched
  BY <1>1, <1>5 DEF InStore, InHand, Fetched
<1>7. OneReads' /\ QueuesSorted'
  BY <1>1, <1>4, <1>5 DEF LineInv, OneReads, QueuesSorted
<1>8. LineSorted'
  <2>1. AllBefore(Fetched, {e}) /\ AllBefore(InHand, {e}) /\ AllBefore(InStore, {e})
    BY <1>3 DEF AllBefore
  <2>2. \A m \in Fetched \cup InHand \cup InStore \cup Arrived \cup {e} : m[2] \in 0..plugs'
    BY <1>1, <1>2 DEF LineInv, LineSorted
  <2>3. QED
    BY <1>4, <1>6, <2>1, <2>2 DEF LineInv, LineSorted, AllBefore
<1>9. Reading!Mount(v)
  <2>1. ReadingIs /\ ReadingIs'
    BY <1>7, ReadingNow, ReadingThen DEF LineInv, LibInv
  <2>2. AtHand' = AtHand /\ Accepted' = Accepted
    BY <1>1, <1>5, <1>6, <2>1 DEF ReadingIs
  <2>3. e \notin AtHand
    <3>1. at[Newest] = "post" => Head(chunk[Newest]) \in InHand
      <4>1. Newest \in Fetchers /\ chunk[Newest] \in Seq(Mounts)
            /\ (at[Newest] = "post" => chunk[Newest] # <<>>) /\ Sorted(chunk[Newest])
        BY NewestIsFetcher DEF LineInv, LibInv, TypeOK, QueuesSorted
      <4>2. QED
        BY <4>1, SortedTail DEF InHand
    <3>2. QED
      BY <1>3, <2>1, <3>1 DEF ReadingIs, Before
  <2>4. (Arrived' \cup Accepted') \ AtHand' = ((Arrived \cup Accepted) \ AtHand) \cup {e}
    BY <1>4, <2>2, <2>3
  <2>5. QED
    BY <1>1, <1>6, <2>2, <2>4 DEF Reading!Mount, Waiting, Arrived, Fetched, e
<1>10. QED
  BY <1>7, <1>8, <1>9 DEF Reading!Next

\* A notice, or a post, of another kind comes or is served.
LEMMA OtherNotice ==
  ASSUME TypeOK, QueuesSorted,
         \/ \E notice \in Notices : notice[1] # "mount" /\ notices' = Append(notices, notice)
         \/ notices # <<>> /\ Head(notices)[1] # "mount" /\ notices' = Tail(notices)
         \/ UNCHANGED notices
  PROVE  NamedSorted(notices', "mount", 2) /\ Arrived' = Arrived
<1>1. notices \in Seq(Notices) /\ NamedSorted(notices, "mount", 2)
  BY DEF TypeOK, QueuesSorted
<1>2. ASSUME NEW notice \in Notices, notice[1] # "mount"
      PROVE  /\ NamedSorted(Append(notices, notice), "mount", 2)
             /\ Named(Append(notices, notice), "mount", 2) = Named(notices, "mount", 2)
  BY <1>1, <1>2, OtherAppend
<1>3. notices # <<>> /\ Head(notices)[1] # "mount" =>
        /\ NamedSorted(Tail(notices), "mount", 2)
        /\ Named(Tail(notices), "mount", 2) = Named(notices, "mount", 2)
  BY <1>1, NamedTail
<1>4. QED
  BY <1>1, <1>2, <1>3 DEF Arrived

LEMMA OtherPost ==
  ASSUME TypeOK, QueuesSorted,
         \/ \E post \in Posts : post[1] # "library" /\ mail' = Append(mail, post)
         \/ mail # <<>> /\ Head(mail)[1] # "library" /\ mail' = Tail(mail)
         \/ UNCHANGED mail
  PROVE  NamedSorted(mail', "library", 3) /\ Fetched' = Fetched
<1>1. mail \in Seq(Posts) /\ NamedSorted(mail, "library", 3)
  BY DEF TypeOK, QueuesSorted
<1>2. ASSUME NEW post \in Posts, post[1] # "library"
      PROVE  /\ NamedSorted(Append(mail, post), "library", 3)
             /\ Named(Append(mail, post), "library", 3) = Named(mail, "library", 3)
  BY <1>1, <1>2, OtherAppend
<1>3. mail # <<>> /\ Head(mail)[1] # "library" =>
        /\ NamedSorted(Tail(mail), "library", 3)
        /\ Named(Tail(mail), "library", 3) = Named(mail, "library", 3)
  BY <1>1, NamedTail
<1>4. QED
  BY <1>1, <1>2, <1>3 DEF Fetched

\* The steps that move no mount.
LEMMA QuietLine ==
  ASSUME LineInv, LibInv',
         \/ \E v \in Volumes : Unmount(v)
         \/ FetchITunes \/ IPodRemoved \/ DidFetchITunes \/ FetcherDidFinish
         \/ Eject \/ UNCHANGED vars
  PROVE  /\ OneReads' /\ QueuesSorted' /\ LineSorted'
         /\ UNCHANGED iPodLibraries => UNCHANGED Reading!vars
         /\ AtHand' = AtHand /\ (Arrived \cup Accepted)' = Arrived \cup Accepted
         /\ Fetched' = Fetched /\ UNCHANGED plugs
<1> USE DEF worldVars, fetcherVars, threadVars, shownVars
<1>1. TypeOK /\ QueuesSorted
  BY DEF LineInv, LibInv
<1>2. /\ UNCHANGED <<plugs, fetchers, objects, chunk, at, canAddObjects>>
      /\ fetcher' \in {Nil, fetcher}
  BY DEF Unmount, FetchITunes, IPodRemoved, DidFetchITunes, FetcherDidFinish, Eject, vars
<1>3. NamedSorted(notices', "mount", 2) /\ Arrived' = Arrived
  <2>1. CASE \E v \in Volumes : Unmount(v)
    <3>1. PICK v \in Volumes : Unmount(v)
      BY <2>1
    <3>2. <<"unmount", <<v, plugs>>>> \in Notices
      BY <1>1 DEF Notices, Mounts, TypeOK
    <3>3. QED
      BY <1>1, <3>1, <3>2, OtherNotice DEF Unmount
  <2>2. CASE IPodRemoved
    BY <1>1, <2>2, OtherNotice DEF IPodRemoved, Notified
  <2>3. CASE FetchITunes \/ DidFetchITunes \/ FetcherDidFinish \/ Eject \/ UNCHANGED vars
    <3>1. UNCHANGED notices
      BY <2>3 DEF FetchITunes, DidFetchITunes, FetcherDidFinish, Eject, vars
    <3>2. QED
      BY <1>1, <3>1, OtherNotice
  <2>4. QED
    BY <2>1, <2>2, <2>3
<1>4. NamedSorted(mail', "library", 3) /\ Fetched' = Fetched
  <2>1. CASE FetchITunes
    <3>1. <<"iTunes">> \in Posts /\ <<"iTunes">>[1] # "library"
      BY DEF Posts
    <3>2. QED
      BY <1>1, <2>1, <3>1, OtherPost DEF FetchITunes
  <2>2. CASE DidFetchITunes \/ FetcherDidFinish
    BY <1>1, <2>2, OtherPost DEF DidFetchITunes, FetcherDidFinish, Posted
  <2>3. CASE (\E v \in Volumes : Unmount(v)) \/ IPodRemoved \/ Eject \/ UNCHANGED vars
    <3>1. UNCHANGED mail
      BY <2>3 DEF Unmount, IPodRemoved, Eject, vars
    <3>2. QED
      BY <1>1, <3>1, OtherPost
  <2>4. QED
    BY <2>1, <2>2, <2>3
<1>5. QED
  BY <1>2, <1>3, <1>4, LineStays

\* A library that is shown goes, or none.
LEMMA RemovedLine ==
  ASSUME LineInv, LibInv', IPodRemoved \/ Eject
  PROVE  [Reading!Next]_(Reading!vars)
<1>1. /\ UNCHANGED iPodLibraries => UNCHANGED Reading!vars
      /\ AtHand' = AtHand /\ (Arrived \cup Accepted)' = Arrived \cup Accepted
      /\ Fetched' = Fetched /\ UNCHANGED plugs
  BY QuietLine
<1>2. CASE UNCHANGED iPodLibraries
  BY <1>1, <1>2
<1>3. CASE \E l \in iPodLibraries : iPodLibraries' = iPodLibraries \ {l}
  <2>1. PICK l \in iPodLibraries : iPodLibraries' = iPodLibraries \ {l}
    BY <1>3
  <2>2. (Arrived' \cup Accepted') \ AtHand' = (Arrived \cup Accepted) \ AtHand
    BY <1>1
  <2>3. Reading!Remove(l)
    BY <1>1, <2>1, <2>2 DEF Reading!Remove, Waiting, Arrived, Fetched
  <2>4. QED
    BY <2>3 DEF Reading!Next
<1>4. QED
  BY <1>2, <1>3, EjectOnlyShows DEF IPodRemoved, RemoveIPod

\* The one that is looked at is the first of all that wait.
LEMMA HeadOfLine ==
  ASSUME LineInv, chunk[Newest] # <<>>
  PROVE  LET head == Head(chunk[Newest])
             rest == Range(Tail(chunk[Newest]))
         IN /\ head \in Mounts /\ head \in InHand /\ InHand = {head} \cup rest
            /\ Sorted(Tail(chunk[Newest])) /\ AllBefore({head}, rest)
            /\ head \notin rest \cup InStore \cup Arrived
            /\ \A n \in Arrived \cup InHand \cup InStore : head[2] <= n[2]
<1> DEFINE head == Head(chunk[Newest])
           rest == Range(Tail(chunk[Newest]))
<1>1. chunk[Newest] \in Seq(Mounts) /\ Sorted(chunk[Newest])
  BY NewestIsFetcher DEF LineInv, LibInv, TypeOK, QueuesSorted
<1>2. /\ head \in Mounts /\ InHand = {head} \cup rest
      /\ Sorted(Tail(chunk[Newest])) /\ AllBefore({head}, rest)
  BY <1>1, SortedTail DEF InHand
<1>3. AllBefore({head}, InStore \cup Arrived)
  BY <1>2 DEF LineInv, LineSorted, AllBefore
<1>4. head[2] <= head[2]
  <2>1. head[2] \in 0..MaxPlugs
    BY <1>2 DEF Mounts
  <2>2. QED
    BY <2>1, LibrariesAssumption
<1> HIDE DEF head, rest
<1>5. \A n \in rest \cup InStore \cup Arrived : Before(head, n)
  BY <1>2, <1>3 DEF AllBefore
<1>6. head \notin rest \cup InStore \cup Arrived
      /\ \A n \in Arrived \cup InHand \cup InStore : head[2] <= n[2]
  BY <1>2, <1>4, <1>5 DEF Before
<1>7. QED
  BY <1>2, <1>6 DEF head, rest

\* Only the newest fetcher has something to do, but for its end.
LEMMA NewestReads ==
  ASSUME LineInv, NEW f \in Fetchers, at[f] \in {"loop", "read", "post"}
  PROVE  f = Newest
BY DEF LineInv, OneReads

LEMMA TakeLine ==
  ASSUME LineInv, LibInv', NEW f \in Fetchers, TakeObjects(f)
  PROVE  OneReads' /\ QueuesSorted' /\ LineSorted' /\ UNCHANGED Reading!vars
<1>1. f = Newest /\ Newest \in Fetchers /\ TypeOK
  BY NewestReads, NewestIsFetcher DEF TakeObjects, LineInv, LibInv
<1>2. /\ UNCHANGED <<plugs, notices, mail, fetchers, fetcher, iPodLibraries>>
      /\ Newest' = Newest
  BY DEF TakeObjects, worldVars, shownVars, Newest
<1>3. /\ chunk'[Newest] = objects[Newest] /\ objects'[Newest] = <<>>
      /\ \A g \in Fetchers \ {Newest} :
           chunk'[g] = chunk[g] /\ objects'[g] = objects[g] /\ at'[g] = at[g]
           /\ canAddObjects'[g] = canAddObjects[g]
      /\ at'[Newest] = (IF objects[Newest] = <<>> THEN "finish" ELSE "read")
      /\ canAddObjects'[Newest] = (objects[Newest] # <<>>)
      /\ at[Newest] = "loop"
  BY <1>1 DEF TakeObjects, TypeOK
<1>4. chunk[Newest] = <<>> /\ InHand = {}
  <2>1. chunk[Newest] = <<>>
    BY <1>3 DEF LineInv, OneReads
  <2>2. QED
    BY <2>1 DEF InHand, Range
<1>5. InHand' = InStore /\ InStore' = {} /\ Arrived' = Arrived /\ Fetched' = Fetched
  BY <1>2, <1>3 DEF InHand, InStore, Arrived, Fetched, Range
<1>6. OneReads'
  BY <1>1, <1>2, <1>3 DEF LineInv, OneReads
<1>7. QueuesSorted'
  <2>1. Sorted(<<>>)
    BY DEF Sorted
  <2>2. QED
    BY <1>2, <1>3, <2>1 DEF LineInv, QueuesSorted
<1>8. LineSorted'
  BY <1>2, <1>4, <1>5 DEF LineInv, LineSorted, AllBefore
<1>9. ReadingIs /\ ReadingIs'
  BY <1>6, ReadingNow, ReadingThen DEF LineInv, LibInv
<1>10. AtHand' = AtHand
  BY <1>2, <1>3, <1>9 DEF ReadingIs
<1>11. QED
  BY <1>2, <1>4, <1>5, <1>6, <1>7, <1>8, <1>9, <1>10, ReadingStays

LEMMA ReadLine ==
  ASSUME LineInv, LibInv', NEW f \in Fetchers, Read(f)
  PROVE  OneReads' /\ QueuesSorted' /\ LineSorted' /\ Reading!Next
<1> DEFINE head == Head(chunk[Newest])
           rest == Range(Tail(chunk[Newest]))
<1>1. f = Newest /\ Newest \in Fetchers /\ TypeOK
  BY NewestReads, NewestIsFetcher DEF Read, LineInv, LibInv
<1>2. /\ UNCHANGED <<plugs, notices, mail, fetchers, fetcher, iPodLibraries, objects, canAddObjects>>
      /\ Newest' = Newest
  BY DEF Read, worldVars, shownVars, fetcherVars, Newest
<1>3. /\ at[Newest] = "read" /\ chunk[Newest] # <<>>
      /\ \A g \in Fetchers \ {Newest} : chunk'[g] = chunk[g] /\ at'[g] = at[g]
      /\ \/ at'[Newest] = "post" /\ chunk'[Newest] = chunk[Newest]
         \/ at'[Newest] = "read" /\ chunk'[Newest] = Tail(chunk[Newest])
  BY <1>1 DEF Read, TypeOK
<1>4. /\ head \in InHand /\ InHand = {head} \cup rest
      /\ Sorted(Tail(chunk[Newest])) /\ AllBefore({head}, rest)
      /\ head \notin rest \cup InStore \cup Arrived
      /\ \A n \in Arrived \cup InHand \cup InStore : head[2] <= n[2]
  BY <1>3, HeadOfLine
<1>5. InStore' = InStore /\ Arrived' = Arrived /\ Fetched' = Fetched
  BY <1>2 DEF InStore, Arrived, Fetched
<1>6. InHand' = IF at'[Newest] = "post" THEN InHand ELSE rest
  BY <1>2, <1>3 DEF InHand
<1>7. OneReads'
  BY <1>1, <1>2, <1>3 DEF LineInv, OneReads
<1>8. QueuesSorted'
  BY <1>2, <1>3, <1>4 DEF LineInv, QueuesSorted
<1>9. ReadingIs /\ ReadingIs'
  BY <1>7, ReadingNow, ReadingThen DEF LineInv, LibInv
<1>10. AtHand = {} /\ AtHand' = IF at'[Newest] = "post" THEN {head} ELSE {}
  BY <1>2, <1>3, <1>9 DEF ReadingIs
<1> HIDE DEF head, rest
<1>11. LineSorted'
  BY <1>2, <1>4, <1>5, <1>6 DEF LineInv, LineSorted, AllBefore
<1>12. Reading!Look(head)
  <2> DEFINE waiting == (Arrived \cup Accepted) \ AtHand
  <2>1. waiting = Arrived \cup InHand \cup InStore
    BY <1>9, <1>10 DEF ReadingIs
  <2>2. (Arrived' \cup Accepted') \ AtHand' = waiting \ {head}
    BY <1>4, <1>5, <1>6, <1>9, <1>10, <2>1 DEF ReadingIs
  <2>3. AtHand' \in {{}, {head}}
    BY <1>10
  <2>4. head \in waiting /\ \A n \in waiting : head[2] <= n[2]
    BY <1>4, <2>1
  <2>5. QED
    BY <1>2, <1>5, <1>10, <2>2, <2>3, <2>4 DEF Reading!Look, Reading!First, Waiting,
         Arrived, Fetched
<1>13. QED
  BY <1>7, <1>8, <1>11, <1>12 DEF Reading!Next, Reading!Look, Reading!First

LEMMA PostLine ==
  ASSUME LineInv, LibInv', NEW f \in Fetchers, PostLibrary(f)
  PROVE  OneReads' /\ QueuesSorted' /\ LineSorted' /\ Reading!Next
<1> DEFINE head == Head(chunk[Newest])
           rest == Range(Tail(chunk[Newest]))
           post == <<"library", f, head>>
<1>1. f = Newest /\ Newest \in Fetchers /\ TypeOK
  BY NewestReads, NewestIsFetcher DEF PostLibrary, LineInv, LibInv
<1>2. /\ UNCHANGED <<plugs, notices, fetchers, fetcher, iPodLibraries, objects, canAddObjects>>
      /\ Newest' = Newest /\ mail' = Append(mail, post)
  BY <1>1 DEF PostLibrary, worldVars, shownVars, fetcherVars, Newest
<1>3. /\ at[Newest] = "post" /\ chunk[Newest] # <<>>
      /\ \A g \in Fetchers \ {Newest} : chunk'[g] = chunk[g] /\ at'[g] = at[g]
      /\ at'[Newest] = "read" /\ chunk'[Newest] = Tail(chunk[Newest])
  BY <1>1 DEF PostLibrary, TypeOK
<1>4. /\ head \in Mounts /\ head \in InHand /\ InHand = {head} \cup rest
      /\ Sorted(Tail(chunk[Newest])) /\ AllBefore({head}, rest)
      /\ head \notin rest \cup InStore \cup Arrived
  BY <1>3, HeadOfLine
<1>5. post \in Posts /\ post[1] = "library" /\ post[3] = head
  BY <1>4 DEF Posts
<1>6. NamedSorted(mail', "library", 3) /\ Fetched' = Fetched \cup {head}
  <2> HIDE DEF post, head
  <2>1. mail \in Seq(Posts) /\ NamedSorted(mail, "library", 3)
    BY <1>1 DEF TypeOK, LineInv, QueuesSorted
  <2>2. AllBefore(Named(mail, "library", 3), {post[3]})
    BY <1>4, <1>5 DEF LineInv, LineSorted, AllBefore, Fetched
  <2>3. /\ NamedSorted(Append(mail, post), "library", 3)
        /\ Named(Append(mail, post), "library", 3) =
             Named(mail, "library", 3) \cup (IF post[1] = "library" THEN {post[3]} ELSE {})
    BY <1>5, <2>1, <2>2, NamedAppend
  <2>4. QED
    BY <1>2, <1>5, <2>3 DEF Fetched
<1>7. InStore' = InStore /\ Arrived' = Arrived /\ InHand' = rest
  BY <1>2, <1>3 DEF InStore, Arrived, InHand
<1>8. OneReads'
  BY <1>1, <1>2, <1>3 DEF LineInv, OneReads
<1>9. QueuesSorted'
  BY <1>2, <1>3, <1>4, <1>6 DEF LineInv, QueuesSorted
<1>10. ReadingIs /\ ReadingIs'
  BY <1>8, ReadingNow, ReadingThen DEF LineInv, LibInv
<1>11. AtHand = {head} /\ AtHand' = {}
  BY <1>2, <1>3, <1>10 DEF ReadingIs
<1> HIDE DEF head, rest
<1>12. LineSorted'
  BY <1>2, <1>4, <1>6, <1>7 DEF LineInv, LineSorted, AllBefore
<1>13. Reading!Post
  <2>1. (Arrived' \cup Accepted') \ AtHand' = (Arrived \cup Accepted) \ AtHand
    BY <1>4, <1>7, <1>10, <1>11 DEF ReadingIs
  <2>2. QED
    BY <1>2, <1>6, <1>11, <2>1 DEF Reading!Post, Waiting, Arrived, Fetched
<1>14. QED
  BY <1>8, <1>9, <1>12, <1>13 DEF Reading!Next

\* A fetcher turns to what has been added meanwhile, or ends.
LEMMA TurnLine ==
  ASSUME LineInv, LibInv', NEW f \in Fetchers, NextChunk(f) \/ PostFinish(f)
  PROVE  OneReads' /\ QueuesSorted' /\ LineSorted' /\ UNCHANGED Reading!vars
<1>1. TypeOK /\ QueuesSorted /\ Newest \in Fetchers
  BY NewestIsFetcher DEF LineInv, LibInv
<1>2. /\ UNCHANGED <<plugs, notices, fetchers, fetcher, iPodLibraries, objects, canAddObjects,
                     chunk>>
      /\ Newest' = Newest
  BY DEF NextChunk, PostFinish, worldVars, shownVars, fetcherVars, Newest
<1>3. NamedSorted(mail', "library", 3) /\ Fetched' = Fetched
  <2>1. <<"finished", f>> \in Posts /\ <<"finished", f>>[1] # "library"
    BY DEF Posts
  <2>2. QED
    BY <1>1, <2>1, OtherPost DEF NextChunk, PostFinish
<1>4. InStore' = InStore /\ Arrived' = Arrived /\ InHand' = InHand
  BY <1>2 DEF InStore, Arrived, InHand
<1>5. /\ \A g \in Fetchers \ {f} : at'[g] = at[g]
      /\ \/ at[f] = "read" /\ chunk[f] = <<>> /\ at'[f] = "loop"
         \/ at[f] = "finish" /\ at'[f] = "ended"
  BY <1>1 DEF NextChunk, PostFinish, TypeOK
<1>6. OneReads'
  BY <1>1, <1>2, <1>5 DEF LineInv, OneReads
<1>7. QueuesSorted' /\ LineSorted'
  BY <1>2, <1>3, <1>4 DEF LineInv, QueuesSorted, LineSorted
<1>8. ReadingIs /\ ReadingIs'
  BY <1>6, ReadingNow, ReadingThen DEF LineInv, LibInv
<1>9. AtHand' = AtHand
  BY <1>1, <1>2, <1>5, <1>8 DEF ReadingIs
<1>10. QED
  BY <1>2, <1>3, <1>4, <1>6, <1>7, <1>8, <1>9, ReadingStays

\* The first that is announced goes to the end of those in the store of the
\* newest fetcher; one that is made for it finds the one before with nothing.
LEMMA AnnouncedLine ==
  ASSUME LineInv, LibInv', IPodMounted
  PROVE  OneReads' /\ QueuesSorted' /\ LineSorted' /\ UNCHANGED Reading!vars
<1> DEFINE m == Head(notices)[2]
           g == IF Added THEN fetcher ELSE fetchers
<1>1. TypeOK /\ MountsInOrder /\ Newest \in Fetchers /\ fetchers = Newest + 1
      /\ OneReads /\ QueuesSorted /\ LineSorted
  BY NewestIsFetcher DEF LineInv, LibInv
<1>2. g \in Fetchers /\ m \in Mounts
  BY <1>1, MountedFetcher DEF IPodMounted
<1>3. /\ UNCHANGED <<plugs, mail, canAddObjects, chunk, iPodLibraries>>
      /\ notices # <<>> /\ Head(notices)[1] = "mount" /\ notices' = Tail(notices)
      /\ objects' = [objects EXCEPT ![g] = Append(@, m)]
      /\ at' = [at EXCEPT ![g] = IF Added THEN @ ELSE "loop"]
      /\ fetcher' = g /\ fetchers' = IF Added THEN fetchers ELSE fetchers + 1
  BY DEF IPodMounted, Notified, worldVars, shownVars
<1>4. /\ NamedSorted(notices', "mount", 2)
      /\ Arrived = {m} \cup Arrived' /\ AllBefore({m}, Arrived')
  <2>1. notices \in Seq(Notices) /\ NamedSorted(notices, "mount", 2)
    BY <1>1 DEF TypeOK, QueuesSorted
  <2>2. QED
    BY <1>3, <2>1, NamedTail DEF Arrived
<1>5. Added => fetcher = Newest
  BY <1>1 DEF Added, OneReads
<1>6. g = Newest'
  <2>1. fetchers \in Nat /\ (Added => fetcher = fetchers - 1)
    BY <1>1, <1>5 DEF TypeOK, Newest
  <2>2. fetchers' = IF Added THEN fetchers ELSE fetchers + 1
    BY <1>3
  <2>3. QED
    BY <2>1, <2>2 DEF Newest
<1>7. ~Added => /\ at[Newest] \in {"finish", "ended"}
                /\ objects[Newest] = <<>> /\ chunk[Newest] = <<>>
  <2> SUFFICES ASSUME ~Added PROVE at[Newest] \in {"finish", "ended"}
    BY <1>1 DEF OneReads, LineInv, LibInv, Closed
  <2>1. CASE fetcher = Nil
    <3>1. Newest # Nil
      BY <1>1, LibrariesAssumption DEF Fetchers
    <3>2. QED
      BY <2>1, <3>1 DEF LineInv, LibInv, NewestHeard
  <2>2. CASE fetcher = Newest /\ ~canAddObjects[Newest]
    BY <1>1, <2>2 DEF OneReads
  <2>3. QED
    BY <1>1, <2>1, <2>2 DEF Added, OneReads
<1> HIDE DEF m, g
<1>8. /\ objects'[g] = Append(objects[g], m)
      /\ \A h \in Fetchers \ {g} : objects'[h] = objects[h] /\ at'[h] = at[h]
      /\ at'[g] = IF Added THEN at[g] ELSE "loop"
  BY <1>1, <1>2, <1>3 DEF TypeOK
<1>9. ~Added => g # Newest /\ objects[g] = <<>> /\ chunk[g] = <<>> /\ at[g] = "unused"
  <2>1. ~Added => g = fetchers /\ g # Newest
    BY <1>1 DEF g, Fetchers
  <2>2. ~Added => at[g] = "unused"
    BY <1>1, <1>2, <2>1 DEF LineInv, LibInv, Unmade, Fetchers
  <2>3. QED
    BY <1>1, <1>2, <2>1, <2>2 DEF OneReads
<1>10. /\ objects[g] \in Seq(Mounts) /\ Sorted(objects[g]) /\ Sorted(chunk[g])
       /\ Range(objects[g]) = InStore /\ Range(chunk[g]) = InHand
  <2>1. CASE Added
    <3>1. g = Newest
      BY <1>5, <2>1 DEF g
    <3>2. QED
      BY <1>1, <3>1 DEF TypeOK, QueuesSorted, InStore, InHand
  <2>2. CASE ~Added
    <3>1. objects[g] = <<>> /\ chunk[g] = <<>> /\ objects[Newest] = <<>> /\ chunk[Newest] = <<>>
      BY <1>7, <1>9, <2>2
    <3>2. Sorted(<<>>)
      BY DEF Sorted
    <3>3. QED
      BY <1>1, <1>2, <3>1, <3>2 DEF TypeOK, InStore, InHand
  <2>3. QED
    BY <2>1, <2>2
<1>11. Sorted(objects'[g]) /\ InStore' = InStore \cup {m}
  <2>1. AllBefore(Range(objects[g]), {m})
    BY <1>1, <1>4, <1>10 DEF LineSorted, AllBefore
  <2>2. Sorted(Append(objects[g], m)) /\ Range(Append(objects[g], m)) = Range(objects[g]) \cup {m}
    BY <1>2, <1>10, <2>1, SortedAppend
  <2>3. QED
    BY <1>6, <1>8, <1>10, <2>2 DEF InStore
<1>12. InHand' = InHand /\ Fetched' = Fetched
  BY <1>3, <1>6, <1>10 DEF InHand, Fetched
<1>13. OneReads'
  <2>1. CASE Added
    <3>1. g = Newest /\ Newest' = Newest
      BY <1>5, <1>6, <2>1 DEF g
    <3>2. QED
      BY <1>1, <1>3, <1>8, <2>1, <3>1 DEF OneReads
  <2>2. CASE ~Added
    <3>1. \A h \in Fetchers \ {g} : objects'[h] = <<>> /\ chunk'[h] = <<>>
                                    /\ at'[h] \in {"unused", "finish", "ended"}
      BY <1>1, <1>3, <1>7, <1>8, <2>2 DEF OneReads
    <3>2. chunk'[g] = <<>> /\ at'[g] = "loop" /\ canAddObjects'[g]
      BY <1>1, <1>2, <1>3, <1>8, <1>9, <2>2 DEF OneReads
    <3>3. \A h \in Fetchers : canAddObjects'[h] \/ at'[h] \in {"finish", "ended"}
      BY <1>1, <1>3, <1>8, <3>2 DEF OneReads
    <3>4. QED
      BY <1>3, <1>6, <3>1, <3>2, <3>3 DEF OneReads
  <2>3. QED
    BY <2>1, <2>2
<1>14. QueuesSorted'
  BY <1>1, <1>3, <1>4, <1>6, <1>10, <1>11 DEF QueuesSorted
<1>15. LineSorted'
  BY <1>1, <1>3, <1>4, <1>11, <1>12 DEF LineSorted, AllBefore
<1>16. ReadingIs /\ ReadingIs'
  BY <1>1, <1>13, ReadingNow, ReadingThen DEF LineInv, LibInv
<1>17. AtHand' = AtHand
  <2>1. CASE Added
    <3>1. g = Newest
      BY <1>5, <2>1 DEF g
    <3>2. QED
      BY <1>3, <1>6, <1>8, <1>16, <2>1, <3>1 DEF ReadingIs
  <2>2. CASE ~Added
    BY <1>6, <1>7, <1>8, <1>16, <2>2 DEF ReadingIs
  <2>3. QED
    BY <2>1, <2>2
<1>18. Arrived' \cup InStore' \cup InHand' = Arrived \cup InStore \cup InHand
  BY <1>4, <1>11, <1>12
<1>19. QED
  BY <1>3, <1>12, <1>13, <1>14, <1>15, <1>16, <1>17, <1>18, ReadingStays

\* The library that is served is the first of those that have been posted.
LEMMA ServedLine ==
  ASSUME LineInv, LibInv', DidFetchLibrary
  PROVE  OneReads' /\ QueuesSorted' /\ LineSorted' /\ Reading!Next
<1> DEFINE m == Head(mail)[3]
<1>1. TypeOK /\ QueuesSorted /\ LineSorted
  BY DEF LineInv, LibInv
<1>2. /\ UNCHANGED <<plugs, notices, fetchers, objects, chunk, at, canAddObjects, fetcher>>
      /\ mail # <<>> /\ Head(mail)[1] = "library" /\ mail' = Tail(mail)
      /\ iPodLibraries' \in {iPodLibraries, iPodLibraries \cup {m}}
  BY DEF DidFetchLibrary, AddIPod, Posted, worldVars, threadVars, fetcherVars
<1>3. /\ NamedSorted(mail', "library", 3)
      /\ Fetched = {m} \cup Fetched' /\ AllBefore({m}, Fetched')
  <2>1. mail \in Seq(Posts) /\ NamedSorted(mail, "library", 3)
    BY <1>1 DEF TypeOK, QueuesSorted
  <2>2. QED
    BY <1>2, <2>1, NamedTail DEF Fetched
<1> HIDE DEF m
<1>4. m \in Mounts
  BY <1>1, <1>3, LineMounts
<1>5. m[2] <= m[2]
  <2>1. m[2] \in 0..MaxPlugs
    BY <1>4 DEF Mounts
  <2>2. QED
    BY <2>1, LibrariesAssumption
<1>6. Newest' = Newest /\ InStore' = InStore /\ InHand' = InHand /\ Arrived' = Arrived
  BY <1>2 DEF Newest, InStore, InHand, Arrived
<1>7. OneReads'
  BY <1>2, <1>6 DEF LineInv, OneReads
<1>8. QueuesSorted'
  BY <1>1, <1>2, <1>3, <1>6 DEF QueuesSorted
<1>9. LineSorted'
  BY <1>1, <1>2, <1>3, <1>6 DEF LineSorted, AllBefore
<1>10. ReadingIs /\ ReadingIs'
  BY <1>7, ReadingNow, ReadingThen DEF LineInv, LibInv
<1>11. AtHand' = AtHand /\ Accepted' = Accepted
  BY <1>2, <1>6, <1>10 DEF ReadingIs
<1>12. Reading!Serve(m)
  <2>1. (Arrived' \cup Accepted') \ AtHand' = (Arrived \cup Accepted) \ AtHand
    BY <1>6, <1>11
  <2>2. \A n \in Fetched' : m # n /\ m[2] <= n[2]
    BY <1>3 DEF AllBefore, Before
  <2>3. Fetched' = Fetched \ {m} /\ m \in Fetched /\ \A n \in Fetched : m[2] <= n[2]
    BY <1>3, <1>5, <2>2
  <2>4. QED
    BY <1>2, <1>11, <2>1, <2>3 DEF Reading!Serve, Reading!First, Waiting, Arrived, Fetched
<1>13. m \in Fetched
  BY <1>3
<1>14. QED
  BY <1>7, <1>8, <1>9, <1>12, <1>13 DEF Reading!Next, Fetched

\* What is listed at the launch is taken in any order: all of it is number 0, and
\* what is announced as well comes after it.
LEMMA LineInit == Init => LineInv /\ Reading!Init
<1> SUFFICES ASSUME Init PROVE LineInv /\ Reading!Init
  OBVIOUS
<1>1. LibInv /\ TypeOK
  BY LibInvInit DEF LibInv
<1>2. Newest = 0 /\ plugs \in Nat /\ mail = <<>> /\ iPodLibraries = {}
      /\ mounted \subseteq Volumes
  BY LibrariesAssumption DEF Init, Newest
<1>a. PICK late \in [1..plugs -> mounted] :
        notices = [i \in 1..plugs |-> <<"mount", <<late[i], i>>>>]
  BY DEF Init
<1>b. /\ DOMAIN notices = 1..plugs
      /\ \A i \in DOMAIN notices : notices[i][2] \in Volumes \X (1..plugs) /\ notices[i][2][2] = i
  BY <1>2, <1>a
<1>c. Arrived \subseteq Volumes \X (1..plugs)
  BY <1>b DEF Arrived, Named
<1>d. NamedSorted(notices, "mount", 2)
  <2> SUFFICES ASSUME NEW i \in DOMAIN notices, NEW j \in DOMAIN notices, i < j
               PROVE  Before(notices[i][2], notices[j][2])
    BY DEF NamedSorted
  <2>1. notices[i][2][2] = i /\ notices[j][2][2] = j /\ i \in 1..plugs /\ j \in 1..plugs
    BY <1>b
  <2>2. QED
    BY <1>2, <2>1 DEF Before
<1>3. /\ fetcher = 0 /\ \A f \in Fetchers : chunk[f] = <<>> /\ canAddObjects[f]
      /\ \A f \in Fetchers : at[f] = IF f = 0 THEN "loop" ELSE "unused"
      /\ \A f \in Fetchers \ {0} : objects[f] = <<>>
  BY DEF Init
<1>4. OneReads
  BY <1>2, <1>3, FirstFetcher DEF OneReads
<1>5. InStore \subseteq Volumes \X {0} /\ Sorted(objects[0])
  <2>1. PICK possible \in SetToSeqs(mounted \X {0}) : objects[0] = possible
    BY FirstFetcher DEF Init
  <2>2. /\ possible \in [1..Cardinality(mounted \X {0}) -> mounted \X {0}]
        /\ \A i, j \in 1..Cardinality(mounted \X {0}) : i # j => possible[i] # possible[j]
    BY <2>1 DEF SetToSeqs
  <2>3. \A i \in DOMAIN possible : possible[i] \in Volumes \X {0} /\ possible[i][2] = 0
    BY <1>2, <2>2
  <2>4. \A i, j \in DOMAIN possible : i < j => i # j
    <3>1. IsFiniteSet(mounted \X {0})
      <4>1. IsFiniteSet(mounted) /\ IsFiniteSet({0})
        BY <1>2, LibrariesAssumption, FS_Subset, FS_Singleton
      <4>2. QED
        BY <4>1, FS_Product
    <3>2. Cardinality(mounted \X {0}) \in Nat
      BY <3>1, FS_CardinalityType
    <3>3. QED
      BY <2>2, <3>2
  <2>5. InStore = Range(possible)
    BY <1>2, <2>1 DEF InStore
  <2>6. InStore \subseteq Volumes \X {0}
    BY <2>3, <2>5 DEF Range
  <2>7. ASSUME NEW i \in DOMAIN possible, NEW j \in DOMAIN possible, i < j
        PROVE  Before(possible[i], possible[j])
    <3>1. possible[i] # possible[j]
      BY <2>2, <2>4, <2>7
    <3>2. possible[i][2] <= possible[j][2]
      BY <2>3
    <3>3. QED
      BY <3>1, <3>2 DEF Before
  <2>8. QED
    BY <2>1, <2>6, <2>7 DEF Sorted
<1>6. Fetched = {} /\ InHand = {}
  BY <1>2, <1>3, FirstFetcher DEF Fetched, InHand, Named, Range
<1>7. QueuesSorted
  <2>1. NamedSorted(mail, "library", 3) /\ Sorted(chunk[0])
    BY <1>2, <1>3, FirstFetcher DEF Sorted, NamedSorted
  <2>2. QED
    BY <1>2, <1>5, <1>d, <2>1 DEF QueuesSorted
<1>8. LineSorted
  <2>1. \A m \in InStore : m[2] = 0
    BY <1>5
  <2>2. \A m \in Arrived : m[2] \in 1..plugs
    BY <1>c
  <2>3. AllBefore(InStore, Arrived)
    BY <1>2, <2>1, <2>2 DEF AllBefore, Before
  <2>4. \A m \in InStore \cup Arrived : m[2] \in 0..plugs
    BY <1>2, <2>1, <2>2
  <2>5. QED
    BY <1>6, <2>3, <2>4 DEF LineSorted, AllBefore
<1>9. Reading!Init
  <2>1. ReadingIs
    BY <1>1, <1>4, ReadingNow
  <2>2. AtHand = {} /\ (Arrived \cup Accepted) \ AtHand = Arrived \cup InStore
    BY <1>2, <1>3, <1>6, <2>1, FirstFetcher DEF ReadingIs
  <2>3. Arrived \cup InStore \subseteq Volumes \X (0..plugs)
    BY <1>2, <1>5, <1>c
  <2>4. QED
    BY <1>2, <1>6, <2>2, <2>3 DEF Reading!Init, Waiting, Arrived, Fetched
<1>10. QED
  BY <1>1, <1>4, <1>7, <1>8, <1>9 DEF LineInv

LEMMA LineStep == LineInv /\ [Next]_vars => LineInv' /\ [Reading!Next]_(Reading!vars)
<1> SUFFICES ASSUME LineInv, [Next]_vars PROVE LineInv' /\ [Reading!Next]_(Reading!vars)
  OBVIOUS
<1>1. LibInv'
  BY LibInvStep DEF LineInv
<1> SUFFICES OneReads' /\ QueuesSorted' /\ LineSorted' /\ [Reading!Next]_(Reading!vars)
  BY <1>1 DEF LineInv
<1>2. CASE \E v \in Volumes : Mount(v)
  BY <1>1, <1>2, MountLine
<1>3. CASE (\E v \in Volumes : Unmount(v)) \/ UNCHANGED vars
           \/ FetchITunes \/ DidFetchITunes \/ FetcherDidFinish
  <2>1. UNCHANGED iPodLibraries
    BY <1>3 DEF Unmount, FetchITunes, DidFetchITunes, FetcherDidFinish, vars, shownVars
  <2>2. QED
    BY <1>1, <1>3, <2>1, QuietLine
<1>4. ASSUME NEW f \in Fetchers, Fetch(f)
      PROVE  OneReads' /\ QueuesSorted' /\ LineSorted' /\ [Reading!Next]_(Reading!vars)
  BY <1>1, <1>4, TakeLine, ReadLine, PostLine, TurnLine DEF Fetch
<1>5. CASE IPodMounted
  BY <1>1, <1>5, AnnouncedLine
<1>6. CASE IPodRemoved \/ Eject
  BY <1>1, <1>6, QuietLine, RemovedLine
<1>7. CASE DidFetchLibrary
  BY <1>1, <1>7, ServedLine
<1>8. QED
  BY <1>2, <1>3, <1>4, <1>5, <1>6, <1>7 DEF Next, World, ServeNotice, ServePost

\* However many fetchers are made, replaced and late, together they look at each
\* mount once, in order, one at a time, and no library is served twice
\* (SELibraryController.m:211-218, 268-271, 483-506).
THEOREM ReadingRefines == Spec => RefinesReading
BY LineInit, LineStep, PTL DEF Spec, RefinesReading, Reading!Spec
=============================================================================
