------------------------- MODULE CopyStatus_proofs ---------------------------
(***************************************************************************)
(* The flag of SECopyController is right whenever all posts are served,    *)
(* for any number of consumers and any bound on the posts.                 *)
(***************************************************************************)
EXTENDS CopyStatus, TLAPS

Finish(c) == <<"finish", c>>
Start(c) == <<"start", c>>

\* The consumer will report a finish, or has and the post is behind i.
FinishOnItsWay(c, i) ==
  at[c] = "postFinish" \/ \E j \in DOMAIN mail : j > i /\ mail[j] = Finish(c)

\* Once asked, a consumer that begins to work has a start on its way.
StartsShown ==
  \A c \in Consumers :
    isWorking[c] /\ (~copying \/ (unasked # {} /\ c \notin unasked)) => StartOnItsWay(c)

\* A start that waits belongs to a consumer that works or has finished since.
StartsEnd ==
  \A i \in DOMAIN mail, c \in Consumers :
    mail[i] = Start(c) => isWorking[c] \/ FinishOnItsWay(c, i)

\* A consumer that is to post a start works.
PostersWork == \A c \in Consumers : at[c] = "postStart" => isWorking[c]

\* While the flag is up somebody works or a finish is on its way.
FlagEnds ==
  copying /\ unasked = {} => \E c \in Consumers : isWorking[c] \/ FinishOnItsWay(c, 0)

StatusInv == TypeOK /\ StartsShown /\ StartsEnd /\ PostersWork /\ FlagEnds

-----------------------------------------------------------------------------
\* Every step preserves the type invariant.
LEMMA TypeStep == TypeOK /\ [Next]_vars => TypeOK'
<1> SUFFICES ASSUME TypeOK, [Next]_vars PROVE TypeOK'
  OBVIOUS
<1> USE DEF TypeOK
<1>1. ASSUME NEW c \in Consumers, SetIdle(c) PROVE TypeOK'
  BY <1>1 DEF SetIdle, Places
<1>2. ASSUME NEW c \in Consumers, SetWorking(c) PROVE TypeOK'
  BY <1>2 DEF SetWorking, Places
<1>3. ASSUME NEW c \in Consumers, PostStart(c) PROVE TypeOK'
  BY <1>3 DEF PostStart, Post, Posts, Places
<1>4. ASSUME NEW c \in Consumers, PostFinish(c) PROVE TypeOK'
  BY <1>4 DEF PostFinish, Post, Posts, Places
<1>5. CASE DidStart
  BY <1>5 DEF DidStart
<1>6. CASE DidFinish
  BY <1>6 DEF DidFinish
<1>7. ASSUME NEW c \in Consumers, AskWorking(c) PROVE TypeOK'
  BY <1>7 DEF AskWorking
<1>8. CASE UNCHANGED vars
  BY <1>8 DEF vars
<1> QED
  BY <1>1, <1>2, <1>3, <1>4, <1>5, <1>6, <1>7, <1>8 DEF Next, Worker, Main

\* setIsWorking: keeps the rest of the invariant.
LEMMA SetStep ==
  ASSUME StatusInv, NEW c \in Consumers, SetIdle(c) \/ SetWorking(c)
  PROVE  StartsShown' /\ StartsEnd' /\ PostersWork' /\ FlagEnds'
<1>1. mail' = mail /\ unasked' = unasked /\ copying' = copying
  BY DEF SetIdle, SetWorking
<1>2. StartsShown'
  BY <1>1 DEF StatusInv, TypeOK, StartsShown, StartOnItsWay, SetIdle, SetWorking
<1>3. StartsEnd'
  BY <1>1 DEF StatusInv, TypeOK, StartsEnd, FinishOnItsWay, SetIdle, SetWorking
<1>4. PostersWork'
  BY DEF StatusInv, TypeOK, PostersWork, SetIdle, SetWorking
<1>5. FlagEnds'
  BY <1>1 DEF StatusInv, TypeOK, FlagEnds, FinishOnItsWay, SetIdle, SetWorking
<1> QED
  BY <1>2, <1>3, <1>4, <1>5

\* A post goes to the end of the mail.
LEMMA PostedMail ==
  ASSUME TypeOK, NEW c \in Consumers, NEW kind, mail' = Append(mail, <<kind, c>>)
  PROVE  /\ DOMAIN mail \subseteq DOMAIN mail'
         /\ \A i \in DOMAIN mail : mail'[i] = mail[i]
         /\ DOMAIN mail' = 1..(Len(mail) + 1)
         /\ DOMAIN mail = 1..Len(mail)
         /\ mail'[Len(mail) + 1] = <<kind, c>>
         /\ Len(mail) \in Nat
BY DEF TypeOK

\* A post keeps the rest of the invariant.
LEMMA PostStep ==
  ASSUME StatusInv, NEW c \in Consumers, PostStart(c) \/ PostFinish(c)
  PROVE  StartsShown' /\ StartsEnd' /\ PostersWork' /\ FlagEnds'
<1>1. isWorking' = isWorking /\ unasked' = unasked /\ copying' = copying
  BY DEF PostStart, PostFinish, Post
<1>2. CASE PostStart(c)
  <2>0. at[c] = "postStart" /\ at' = [at EXCEPT ![c] = "busy"] /\ isWorking[c]
    BY <1>2 DEF PostStart, Post, StatusInv, PostersWork
  <2> DEFINE n == Len(mail) + 1
  <2>1. /\ DOMAIN mail \subseteq DOMAIN mail'
        /\ \A i \in DOMAIN mail : mail'[i] = mail[i]
        /\ DOMAIN mail' = 1..n
        /\ DOMAIN mail = 1..(n - 1)
        /\ mail'[n] = Start(c)
        /\ n \in Nat \ {0}
    BY <1>2, PostedMail DEF PostStart, Post, StatusInv, Start
  <2>2. StartsShown'
    <3>1. ASSUME NEW d \in Consumers, StartOnItsWay(d) PROVE StartOnItsWay(d)'
      <4>1. CASE d = c
        BY <4>1, <2>1 DEF StartOnItsWay, Start
      <4>2. CASE d # c
        BY <4>2, <3>1, <2>0, <2>1 DEF StatusInv, TypeOK, StartOnItsWay
      <4> QED
        BY <4>1, <4>2
    <3> QED
      BY <1>1, <3>1 DEF StatusInv, StartsShown
  <2>3. ASSUME NEW d \in Consumers, NEW i, FinishOnItsWay(d, i) PROVE FinishOnItsWay(d, i)'
    BY <2>0, <2>1, <2>3 DEF StatusInv, TypeOK, FinishOnItsWay
  <2>4. StartsEnd'
    <3> SUFFICES ASSUME NEW i \in DOMAIN mail', NEW d \in Consumers, mail'[i] = Start(d)
                 PROVE  isWorking[d] \/ FinishOnItsWay(d, i)'
      BY <1>1 DEF StartsEnd, Start
    <3>1. CASE i = n
      BY <3>1, <2>0, <2>1 DEF Start
    <3>2. CASE i # n
      <4>1. i \in DOMAIN mail /\ mail[i] = Start(d)
        BY <3>2, <2>1
      <4> QED
        BY <4>1, <2>3 DEF StatusInv, StartsEnd
    <3> QED
      BY <3>1, <3>2
  <2>5. PostersWork'
    BY <1>1, <2>0 DEF StatusInv, TypeOK, PostersWork
  <2>6. FlagEnds'
    BY <1>1, <2>3 DEF StatusInv, FlagEnds
  <2> QED
    BY <2>2, <2>4, <2>5, <2>6
<1>3. CASE PostFinish(c)
  <2>0. at[c] = "postFinish" /\ at' = [at EXCEPT ![c] = "asleep"]
    BY <1>3 DEF PostFinish, Post
  <2> DEFINE n == Len(mail) + 1
  <2>1. /\ DOMAIN mail \subseteq DOMAIN mail'
        /\ \A i \in DOMAIN mail : mail'[i] = mail[i]
        /\ DOMAIN mail' = 1..n
        /\ DOMAIN mail = 1..(n - 1)
        /\ mail'[n] = Finish(c)
        /\ n \in Nat \ {0}
    BY <1>3, PostedMail DEF PostFinish, Post, StatusInv, Finish
  <2>2. StartsShown'
    BY <1>1, <2>0, <2>1 DEF StatusInv, TypeOK, StartsShown, StartOnItsWay
  <2>3. ASSUME NEW d \in Consumers, NEW i \in 0..(n - 1), FinishOnItsWay(d, i)
        PROVE  FinishOnItsWay(d, i)'
    <3>1. CASE d = c
      BY <3>1, <2>1 DEF FinishOnItsWay
    <3>2. CASE d # c
      BY <3>2, <2>0, <2>1, <2>3 DEF StatusInv, TypeOK, FinishOnItsWay
    <3> QED
      BY <3>1, <3>2
  <2>4. StartsEnd'
    <3> SUFFICES ASSUME NEW i \in DOMAIN mail', NEW d \in Consumers, mail'[i] = Start(d)
                 PROVE  isWorking[d] \/ FinishOnItsWay(d, i)'
      BY <1>1 DEF StartsEnd, Start
    <3>1. i # n
      BY <2>1 DEF Start, Finish
    <3>2. i \in DOMAIN mail /\ mail[i] = Start(d) /\ i \in 0..(n - 1)
      BY <3>1, <2>1
    <3> QED
      BY <3>2, <2>3 DEF StatusInv, StartsEnd
  <2>5. PostersWork'
    BY <1>1, <2>0 DEF StatusInv, TypeOK, PostersWork
  <2>6. FlagEnds'
    BY <1>1, <2>1, <2>3 DEF StatusInv, FlagEnds
  <2> QED
    BY <2>2, <2>4, <2>5, <2>6
<1> QED
  BY <1>2, <1>3

\* The main thread takes the first post.
LEMMA ServedMail ==
  ASSUME TypeOK, mail # <<>>, mail' = Tail(mail)
  PROVE  /\ Len(mail) \in Nat \ {0}
         /\ DOMAIN mail = 1..Len(mail)
         /\ DOMAIN mail' = 1..(Len(mail) - 1)
         /\ \A i \in 1..(Len(mail) - 1) : mail'[i] = mail[i + 1]
         /\ mail[1] = Head(mail)
         /\ \E c \in Consumers : mail[1] \in {Start(c), Finish(c)}
<1>1. Len(mail) \in Nat \ {0}
  BY DEF TypeOK
<1>2. mail[1] \in Posts
  BY <1>1 DEF TypeOK
<1>3. \E c \in Consumers : mail[1] \in {Start(c), Finish(c)}
  BY <1>2 DEF Posts, Start, Finish
<1> QED
  BY <1>1, <1>3 DEF TypeOK

\* Serving a post keeps the rest of the invariant.
LEMMA ServeStep ==
  ASSUME StatusInv, DidStart \/ DidFinish
  PROVE  StartsShown' /\ StartsEnd' /\ PostersWork' /\ FlagEnds'
<1> DEFINE n == Len(mail)
<1>1. isWorking' = isWorking /\ at' = at /\ unasked = {} /\ mail # <<>> /\ mail' = Tail(mail)
  BY DEF DidStart, DidFinish
<1>2. /\ n \in Nat \ {0}
      /\ DOMAIN mail = 1..n
      /\ DOMAIN mail' = 1..(n - 1)
      /\ \A i \in 1..(n - 1) : mail'[i] = mail[i + 1]
      /\ mail[1] = Head(mail)
  BY <1>1, ServedMail DEF StatusInv
<1>3. PICK b \in Consumers : mail[1] \in {Start(b), Finish(b)}
  BY <1>1, ServedMail DEF StatusInv
<1>4. ASSUME NEW d \in Consumers, NEW i \in 1..n, FinishOnItsWay(d, i)
      PROVE  FinishOnItsWay(d, i - 1)'
  <2>1. CASE at[d] = "postFinish"
    BY <2>1, <1>1 DEF FinishOnItsWay
  <2>2. CASE \E j \in DOMAIN mail : j > i /\ mail[j] = Finish(d)
    <3>1. PICK j \in DOMAIN mail : j > i /\ mail[j] = Finish(d)
      BY <2>2
    <3>2. j - 1 \in DOMAIN mail' /\ j - 1 > i - 1 /\ mail'[j - 1] = mail[j]
      BY <3>1, <1>2
    <3> QED
      BY <3>1, <3>2 DEF FinishOnItsWay, Finish
  <2> QED
    BY <2>1, <2>2, <1>4 DEF FinishOnItsWay
<1>5. StartsEnd'
  <2> SUFFICES ASSUME NEW i \in DOMAIN mail', NEW d \in Consumers, mail'[i] = Start(d)
               PROVE  isWorking[d] \/ FinishOnItsWay(d, i)'
    BY <1>1 DEF StartsEnd, Start
  <2>1. i + 1 \in 1..n /\ mail[i + 1] = Start(d) /\ (i + 1) - 1 = i
    BY <1>2
  <2>2. isWorking[d] \/ FinishOnItsWay(d, i + 1)
    BY <2>1, <1>2 DEF StatusInv, StartsEnd
  <2> QED
    BY <2>1, <2>2, <1>4
<1>6. PostersWork'
  BY <1>1 DEF StatusInv, PostersWork
<1>7. CASE DidStart
  <2>1. copying' /\ unasked' = {} /\ mail[1] = Start(b)
    BY <1>7, <1>1, <1>2, <1>3 DEF DidStart, Start, Finish
  <2>2. isWorking[b] \/ FinishOnItsWay(b, 1)
    <3>1. 1 \in DOMAIN mail
      BY <1>2
    <3> QED
      BY <3>1, <2>1 DEF StatusInv, StartsEnd
  <2>3. isWorking'[b] \/ FinishOnItsWay(b, 0)'
    BY <2>2, <1>1, <1>2, <1>4
  <2> QED
    BY <2>1, <2>3, <1>5, <1>6 DEF StartsShown, FlagEnds
<1>8. CASE DidFinish
  <2>1. copying' = copying /\ unasked' = Consumers /\ mail[1] = Finish(b)
    BY <1>8, <1>1, <1>2, <1>3 DEF DidFinish, Start, Finish
  <2>2. ASSUME NEW d \in Consumers, StartOnItsWay(d) PROVE StartOnItsWay(d)'
    <3>1. CASE at[d] = "postStart"
      BY <3>1, <1>1 DEF StartOnItsWay
    <3>2. CASE \E j \in DOMAIN mail : mail[j] = <<"start", d>>
      <4>1. PICK j \in DOMAIN mail : mail[j] = <<"start", d>>
        BY <3>2
      <4>2. j # 1
        BY <4>1, <2>1 DEF Finish
      <4>3. j - 1 \in DOMAIN mail' /\ mail'[j - 1] = mail[j]
        BY <4>1, <4>2, <1>2
      <4> QED
        BY <4>1, <4>3 DEF StartOnItsWay
    <3> QED
      BY <3>1, <3>2, <2>2 DEF StartOnItsWay
  <2>3. StartsShown'
    BY <2>1, <2>2, <1>1 DEF StatusInv, StartsShown
  <2>4. FlagEnds'
    BY <2>1, <1>3 DEF FlagEnds
  <2> QED
    BY <2>3, <2>4, <1>5, <1>6
<1> QED
  BY <1>7, <1>8

\* Asking a consumer keeps the rest of the invariant.
LEMMA AskStep ==
  ASSUME StatusInv, NEW c \in Consumers, AskWorking(c)
  PROVE  StartsShown' /\ StartsEnd' /\ PostersWork' /\ FlagEnds'
<1>1. isWorking' = isWorking /\ at' = at /\ mail' = mail /\ c \in unasked
  BY DEF AskWorking
<1>2. ASSUME NEW d, NEW i PROVE FinishOnItsWay(d, i)' <=> FinishOnItsWay(d, i)
  BY <1>1 DEF FinishOnItsWay
<1>3. ASSUME NEW d PROVE StartOnItsWay(d)' <=> StartOnItsWay(d)
  BY <1>1 DEF StartOnItsWay
<1>4. StartsEnd' /\ PostersWork'
  BY <1>1, <1>2 DEF StatusInv, StartsEnd, PostersWork
<1>5. CASE isWorking[c]
  <2>1. unasked' = {} /\ copying' = copying
    BY <1>5 DEF AskWorking, StatusInv, TypeOK
  <2>2. StartsShown'
    BY <2>1, <1>1, <1>3 DEF StatusInv, StartsShown
  <2>3. FlagEnds'
    BY <1>5, <1>1 DEF FlagEnds
  <2> QED
    BY <2>2, <2>3, <1>4
<1>6. CASE ~isWorking[c]
  <2>1. unasked' = unasked \ {c} /\ (copying' <=> copying /\ unasked # {c})
    BY <1>6 DEF AskWorking
  <2>2. StartsShown'
    <3> SUFFICES ASSUME NEW d \in Consumers, isWorking[d],
                        ~copying' \/ (unasked' # {} /\ d \notin unasked')
                 PROVE  StartOnItsWay(d)
      BY <1>1, <1>3 DEF StartsShown
    <3>1. d # c
      BY <1>6
    <3>2. ~copying \/ (unasked # {} /\ d \notin unasked)
      BY <2>1, <3>1, <1>1
    <3> QED
      BY <3>2 DEF StatusInv, StartsShown
  <2>3. FlagEnds'
    <3> SUFFICES ASSUME copying', unasked' = {} PROVE FALSE
      BY DEF FlagEnds
    <3>1. unasked = {c}
      BY <2>1, <1>1
    <3> QED
      BY <2>1, <3>1
  <2> QED
    BY <2>2, <2>3, <1>4
<1> QED
  BY <1>5, <1>6

-----------------------------------------------------------------------------
\* The invariant holds in every state.
LEMMA StatusInvariant == Spec => []StatusInv
<1>1. Init => StatusInv
  <2> SUFFICES ASSUME Init PROVE StatusInv
    OBVIOUS
  <2>1. TypeOK
    <3>1. mail \in Seq(Posts)
      BY DEF Init
    <3>2. isWorking \in [Consumers -> BOOLEAN] /\ at \in [Consumers -> Places]
      BY DEF Init, Places
    <3>3. unasked \subseteq Consumers /\ copying \in BOOLEAN
      BY DEF Init
    <3> QED
      BY <3>1, <3>2, <3>3 DEF TypeOK
  <2>2. DOMAIN mail = {}
    BY DEF Init
  <2>3. StartsShown /\ StartsEnd /\ PostersWork /\ FlagEnds
    BY <2>2 DEF Init, StartsShown, StartsEnd, PostersWork, FlagEnds
  <2> QED
    BY <2>1, <2>3 DEF StatusInv
<1>2. StatusInv /\ [Next]_vars => StatusInv'
  <2> SUFFICES ASSUME StatusInv, [Next]_vars PROVE StatusInv'
    OBVIOUS
  <2>1. TypeOK'
    BY TypeStep DEF StatusInv
  <2>2. CASE UNCHANGED vars
    <3>1. isWorking' = isWorking /\ at' = at /\ mail' = mail /\ unasked' = unasked
          /\ copying' = copying
      BY <2>2 DEF vars
    <3> QED
      BY <3>1, <2>1 DEF StatusInv, StartsShown, StartsEnd, PostersWork, FlagEnds,
                        StartOnItsWay, FinishOnItsWay
  <2>3. CASE Next
    BY <2>1, <2>3, SetStep, PostStep, ServeStep, AskStep DEF Next, Worker, Main, StatusInv
  <2> QED
    BY <2>2, <2>3
<1> QED
  BY <1>1, <1>2, PTL DEF Spec

\* When all posts are served, copying is TRUE exactly if a consumer works
\* (consumerDidStart: and consumerDidFinish: of SECopyController).
THEOREM FlagRight == Spec => []FlagIsRight
<1>1. StatusInv => FlagIsRight
  BY DEF StatusInv, TypeOK, FlagIsRight, Settled, StartsShown, FlagEnds, StartOnItsWay,
         FinishOnItsWay
<1> QED
  BY <1>1, StatusInvariant, PTL

\* A consumer that works while the flag is down has its start on the way.
THEOREM NotDownForGood == Spec => []NeverDownForGood
<1>1. StatusInv => NeverDownForGood
  BY DEF StatusInv, StartsShown, NeverDownForGood
<1> QED
  BY <1>1, StatusInvariant, PTL
=============================================================================
