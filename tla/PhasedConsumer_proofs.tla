------------------------ MODULE PhasedConsumer_proofs ------------------------
(***************************************************************************)
(* Theorems about PhasedConsumer, for any objects, wanted or not, and      *)
(* arrays of any length.  Without a cancel: the second phase waits on the  *)
(* first, the semaphore balances, and the phases refine TwoPhase.  With    *)
(* one: each phase refines WorkQueue.                                      *)
(***************************************************************************)
EXTENDS PhasedConsumer, SequenceTheorems, FiniteSetTheorems, TLAPS

-----------------------------------------------------------------------------
(* What is pending in the first phase is the end of the line, and what is  *)
(* before that is finished there.                                          *)

Follows(line, pending, finished) ==
  /\ Len(pending) <= Len(line)
  /\ \A i \in 1..Len(pending) : line[Len(line) - Len(pending) + i] = pending[i]
  /\ \A i \in 1..(Len(line) - Len(pending)) : line[i] \in finished

LEMMA FollowsAdd ==
  ASSUME NEW line \in Seq(Objects), NEW pending \in Seq(Objects), NEW finished,
         NEW array \in Seq(Objects), Follows(line, pending, finished)
  PROVE  /\ Follows(line \o array, pending \o array, finished)
         /\ Len(line \o array) - Len(pending \o array) = Len(line) - Len(pending)
<1> DEFINE l == Len(line)
           n == Len(pending)
           m == Len(array)
           longer == line \o array
           more == pending \o array
<1>1. l \in Nat /\ n \in Nat /\ m \in Nat
  BY LenProperties
<1>2. /\ Len(longer) = l + m
      /\ \A i \in 1..(l + m) : longer[i] = IF i <= l THEN line[i] ELSE array[i - l]
  BY ConcatProperties
<1>3. /\ Len(more) = n + m
      /\ \A i \in 1..(n + m) : more[i] = IF i <= n THEN pending[i] ELSE array[i - n]
  BY ConcatProperties
<1>4. /\ n <= l
      /\ \A i \in 1..n : line[l - n + i] = pending[i]
      /\ \A i \in 1..(l - n) : line[i] \in finished
  BY DEF Follows
<1> HIDE DEF l, n, m, longer, more
<1>5. \A i \in 1..(n + m) : longer[(l + m) - (n + m) + i] = more[i]
  <2> TAKE i \in 1..(n + m)
  <2>1. CASE i <= n
    <3>1. i \in 1..n /\ l - n + i \in 1..(l + m) /\ l - n + i <= l
      BY <1>1, <1>4, <2>1
    <3>2. (l + m) - (n + m) + i = l - n + i
      BY <1>1
    <3>3. longer[l - n + i] = line[l - n + i] /\ more[i] = pending[i]
      BY <1>2, <1>3, <2>1, <3>1
    <3>4. QED BY <1>4, <3>1, <3>2, <3>3
  <2>2. CASE ~(i <= n)
    <3>1. l - n + i \in 1..(l + m) /\ ~(l - n + i <= l) /\ (l - n + i) - l = i - n
      BY <1>1, <1>4, <2>2
    <3>2. (l + m) - (n + m) + i = l - n + i
      BY <1>1
    <3>3. longer[l - n + i] = array[i - n] /\ more[i] = array[i - n]
      BY <1>2, <1>3, <2>2, <3>1
    <3>4. QED BY <3>2, <3>3
  <2>3. QED BY <2>1, <2>2
<1>6. \A i \in 1..((l + m) - (n + m)) : longer[i] \in finished
  <2> TAKE i \in 1..((l + m) - (n + m))
  <2>1. i \in 1..(l - n) /\ i \in 1..(l + m) /\ i <= l
    BY <1>1, <1>4
  <2>2. QED BY <1>2, <1>4, <2>1
<1>7. n + m <= l + m /\ (l + m) - (n + m) = l - n
  BY <1>1, <1>4
<1>8. QED BY <1>2, <1>3, <1>5, <1>6, <1>7 DEF Follows, l, n, longer, more

LEMMA FollowsFirst ==
  ASSUME NEW line \in Seq(Objects), NEW pending \in Seq(Objects), NEW finished,
         pending # <<>>, Follows(line, pending, finished)
  PROVE  /\ Follows(line, Tail(pending), finished \cup {Head(pending)})
         /\ Len(line) - Len(Tail(pending)) = Len(line) - Len(pending) + 1
         /\ Len(line) - Len(pending) < Len(line)
<1> DEFINE l == Len(line)
           n == Len(pending)
           rest == Tail(pending)
<1>1. l \in Nat /\ n \in Nat \ {0}
  BY LenProperties, EmptySeq
<1>2. Len(rest) = n - 1 /\ \A i \in 1..(n - 1) : rest[i] = pending[i + 1]
  BY HeadTailProperties
<1>3. /\ n <= l
      /\ \A i \in 1..n : line[l - n + i] = pending[i]
      /\ \A i \in 1..(l - n) : line[i] \in finished
  BY DEF Follows
<1>4. Head(pending) = pending[1]
  OBVIOUS
<1> HIDE DEF l, n, rest
<1>5. \A i \in 1..(n - 1) : line[l - (n - 1) + i] = rest[i]
  <2> TAKE i \in 1..(n - 1)
  <2>1. i + 1 \in 1..n /\ l - (n - 1) + i = l - n + (i + 1)
    BY <1>1
  <2>2. QED BY <1>2, <1>3, <2>1
<1>6. \A i \in 1..(l - (n - 1)) : line[i] \in finished \cup {Head(pending)}
  <2> TAKE i \in 1..(l - (n - 1))
  <2>1. CASE i \in 1..(l - n)
    BY <1>3, <2>1
  <2>2. CASE i \notin 1..(l - n)
    <3>1. i = l - n + 1 /\ 1 \in 1..n
      BY <1>1, <1>3, <2>2
    <3>2. QED BY <1>3, <1>4, <3>1
  <2>3. QED BY <2>1, <2>2
<1>7. n - 1 <= l /\ l - (n - 1) = l - n + 1 /\ l - n < l
  BY <1>1, <1>3
<1>8. QED BY <1>2, <1>5, <1>6, <1>7 DEF Follows, l, n, rest

LEMMA FollowsSecond ==
  ASSUME NEW line \in Seq(Objects), NEW pending \in Seq(Objects), NEW finished,
         Len(line) - Len(pending) > 0, Follows(line, pending, finished)
  PROVE  /\ Follows(Tail(line), pending, finished)
         /\ Len(Tail(line)) - Len(pending) = Len(line) - Len(pending) - 1
         /\ Head(line) \in finished
<1> DEFINE l == Len(line)
           n == Len(pending)
           rest == Tail(line)
<1>1. l \in Nat /\ n \in Nat /\ l > 0 /\ l - n > 0
  BY LenProperties
<1>2. Len(rest) = l - 1 /\ \A i \in 1..(l - 1) : rest[i] = line[i + 1]
  BY <1>1, HeadTailProperties
<1>3. /\ n <= l
      /\ \A i \in 1..n : line[l - n + i] = pending[i]
      /\ \A i \in 1..(l - n) : line[i] \in finished
  BY DEF Follows
<1>4. Head(line) = line[1] /\ 1 \in 1..(l - n)
  BY <1>1
<1> HIDE DEF l, n, rest
<1>5. \A i \in 1..n : rest[(l - 1) - n + i] = pending[i]
  <2> TAKE i \in 1..n
  <2>1. (l - 1) - n + i \in 1..(l - 1) /\ ((l - 1) - n + i) + 1 = l - n + i
    BY <1>1
  <2>2. QED BY <1>2, <1>3, <2>1
<1>6. \A i \in 1..((l - 1) - n) : rest[i] \in finished
  <2> TAKE i \in 1..((l - 1) - n)
  <2>1. i \in 1..(l - 1) /\ i + 1 \in 1..(l - n)
    BY <1>1
  <2>2. QED BY <1>2, <1>3, <2>1
<1>7. n <= l - 1 /\ (l - 1) - n = l - n - 1
  BY <1>1
<1>8. QED BY <1>2, <1>3, <1>4, <1>5, <1>6, <1>7 DEF Follows, l, n, rest

LEMMA Regroup ==
  ASSUME NEW s \in Seq(Objects), NEW t \in Seq(Objects), NEW u \in Seq(Objects)
  PROVE  s \o (t \o u) = (s \o t) \o u
  BY ConcatAssociative

\* The tail of what comes first is the tail of the whole.
LEMMA TailOfConcat ==
  ASSUME NEW s \in Seq(Objects), NEW t \in Seq(Objects), s # <<>>
  PROVE  /\ Tail(s \o t) = Tail(s) \o t
         /\ Head(s \o t) = Head(s)
         /\ s \o t # <<>>
<1>1. Len(s) \in Nat \ {0} /\ Len(t) \in Nat
  BY LenProperties, EmptySeq
<1>2. /\ s \o t \in Seq(Objects)
      /\ Len(s \o t) = Len(s) + Len(t)
      /\ \A i \in 1..(Len(s) + Len(t)) :
           (s \o t)[i] = IF i <= Len(s) THEN s[i] ELSE t[i - Len(s)]
  BY ConcatProperties
<1>3. s \o t # <<>>
  BY <1>1, <1>2
<1>4. /\ Tail(s) \in Seq(Objects)
      /\ Len(Tail(s)) = Len(s) - 1
      /\ \A i \in 1..(Len(s) - 1) : Tail(s)[i] = s[i + 1]
  BY HeadTailProperties
<1>5. /\ Tail(s \o t) \in Seq(Objects)
      /\ Len(Tail(s \o t)) = Len(s) + Len(t) - 1
      /\ \A i \in 1..(Len(s) + Len(t) - 1) : Tail(s \o t)[i] = (s \o t)[i + 1]
  BY <1>1, <1>2, <1>3, HeadTailProperties
<1>6. /\ Tail(s) \o t \in Seq(Objects)
      /\ Len(Tail(s) \o t) = Len(s) - 1 + Len(t)
      /\ \A i \in 1..(Len(s) - 1 + Len(t)) :
           (Tail(s) \o t)[i] = IF i <= Len(s) - 1 THEN Tail(s)[i] ELSE t[i - (Len(s) - 1)]
  BY <1>4, ConcatProperties
<1>7. \A i \in 1..(Len(s) + Len(t) - 1) : Tail(s \o t)[i] = (Tail(s) \o t)[i]
  <2> TAKE i \in 1..(Len(s) + Len(t) - 1)
  <2>1. i + 1 \in 1..(Len(s) + Len(t)) /\ i \in 1..(Len(s) - 1 + Len(t))
    BY <1>1
  <2>2. CASE i <= Len(s) - 1
    BY <1>1, <1>2, <1>4, <1>5, <1>6, <2>1, <2>2
  <2>3. CASE ~(i <= Len(s) - 1)
    <3>1. ~(i + 1 <= Len(s)) /\ (i + 1) - Len(s) = i - (Len(s) - 1)
      BY <1>1, <2>3
    <3>2. QED BY <1>2, <1>5, <1>6, <2>1, <2>3, <3>1
  <2>4. QED BY <2>2, <2>3
<1>8. Len(Tail(s \o t)) = Len(Tail(s) \o t)
  BY <1>1, <1>5, <1>6
<1>9. Tail(s \o t) = Tail(s) \o t
  BY <1>1, <1>5, <1>6, <1>7, <1>8, SeqEqual
<1>10. Head(s \o t) = Head(s)
  BY <1>1, <1>2, <1>3
<1>11. QED BY <1>3, <1>9, <1>10

-----------------------------------------------------------------------------
(* The inductive invariant.                                                *)

\* A phase has taken an object and not finished it.
AtWork == {"await", "blocked", "work", "finished", "again"}

InHand ==
  \A p \in Phases : at[p] \in AtWork => active[p] # <<>> /\ hand[p] = Head(active[p])

Uncancelled == semaphore \in Nat /\ (adding = "none" => batch = <<>>)

Aligned == Follows(Line, Pending(1), done[1])

\* No more signals than objects of the line that the first phase has finished.
Enough == semaphore + Passed <= Ready

PhasedInv == TypeOK /\ Uncancelled /\ InHand /\ Aligned /\ Enough

LEMMA LineTypes ==
  ASSUME TypeOK
  PROVE  /\ \A p \in Phases : active[p] \in Seq(Objects) /\ objects[p] \in Seq(Objects)
         /\ \A p \in Phases : Pending(p) \in Seq(Objects)
         /\ 1 \in Phases /\ 2 \in Phases
         /\ batch \in Seq(Objects)
         /\ Line \in Seq(Objects)
         /\ Len(Line) \in Nat /\ Len(Pending(1)) \in Nat
         /\ Ready \in Int
         /\ Passed \in 0..1
<1>1. \A p \in Phases : active[p] \in Seq(Objects) /\ objects[p] \in Seq(Objects)
  BY DEF TypeOK
<1>2. \A p \in Phases : Pending(p) \in Seq(Objects)
  BY <1>1, ConcatProperties DEF Pending
<1>3. 1 \in Phases /\ 2 \in Phases
  BY DEF Phases
<1>4. batch \in Seq(Objects)
  BY DEF TypeOK
<1>5. Line \in Seq(Objects)
  BY <1>2, <1>3, <1>4, ConcatProperties DEF Line
<1>6. Len(Line) \in Nat /\ Len(Pending(1)) \in Nat
  BY <1>2, <1>3, <1>5, LenProperties
<1>7. Ready \in Int
  BY <1>6 DEF Ready
<1>8. Passed \in 0..1
  BY DEF Passed
<1>9. QED BY <1>1, <1>2, <1>3, <1>4, <1>5, <1>6, <1>7, <1>8

LEMMA ArraysAreSeqs == Arrays \subseteq Seq(Objects)
<1>1. \A n \in 1..MaxBatch : [1..n -> Objects] \subseteq Seq(Objects)
  BY PhasedAssumption
<1>2. QED BY <1>1 DEF Arrays

-----------------------------------------------------------------------------
(* Types.                                                                  *)

LEMMA AdderTypes ==
  ASSUME TypeOK, Adder
  PROVE  TypeOK'
<1> USE DEF TypeOK, workerVars, queueVars, adderVars
<1>1. ASSUME NEW array \in Arrays, AddFirst(array)
      PROVE  TypeOK'
  <2>1. array \in Seq(Objects)
    BY ArraysAreSeqs
  <2>2. Elements(array) \subseteq Objects
    BY <2>1, ElementOfSeq, LenProperties DEF Elements
  <2>3. objects[1] \o array \in Seq(Objects)
    BY <2>1, LineTypes, ConcatProperties
  <2>4. objects' \in [Phases -> Seq(Objects)]
    BY <1>1, <2>3 DEF AddFirst, Append1
  <2>5. wake' \in [Phases -> 0..1]
    <3>1. (IF objects[1] = <<>> THEN 1 ELSE wake[1]) \in 0..1
      BY LineTypes
    <3>2. QED BY <1>1, <3>1 DEF AddFirst, Append1
  <2>6. QED BY <1>1, <2>1, <2>2, <2>4, <2>5 DEF AddFirst
<1>2. CASE SetUpSecond
  BY <1>2 DEF SetUpSecond
<1>3. CASE AddSecond
  <2>1. objects[2] \o batch \in Seq(Objects)
    BY LineTypes, ConcatProperties
  <2>2. objects' \in [Phases -> Seq(Objects)]
    BY <1>3, <2>1 DEF AddSecond, Append1
  <2>3. wake' \in [Phases -> 0..1]
    <3>1. (IF objects[2] = <<>> THEN 1 ELSE wake[2]) \in 0..1
      BY LineTypes
    <3>2. QED BY <1>3, <3>1 DEF AddSecond, Append1
  <2>4. QED BY <1>3, <2>2, <2>3 DEF AddSecond
<1>4. QED BY <1>1, <1>2, <1>3 DEF Adder

LEMMA WorkerTypes ==
  ASSUME TypeOK, Uncancelled, InHand, NEW p \in Phases, Worker(p)
  PROVE  TypeOK'
<1> USE DEF TypeOK, queueVars, adderVars, Move, WorkerAt
<1>1. CASE Take(p)
  <2>1. Head(active[p]) \in Objects
    BY <1>1, LineTypes, HeadTailProperties DEF Take
  <2>2. QED BY <1>1, <2>1 DEF Take
<1>2. CASE Reset(p)
  <2>1. <<>> \in Seq(Objects)
    OBVIOUS
  <2>2. QED BY <1>2, <2>1 DEF Reset
<1>3. CASE WillSleep(p) \/ WakeUp(p) \/ NextIteration(p)
  <2>1. CASE WillSleep(p) \/ NextIteration(p)
    BY <2>1 DEF WillSleep, NextIteration
  <2>2. CASE WakeUp(p)
    <3>1. wake' \in [Phases -> 0..1]
      BY <2>2 DEF WakeUp
    <3>2. QED BY <2>2, <3>1 DEF WakeUp
  <2>3. QED BY <1>3, <2>1, <2>2
<1>4. CASE Waiting
  <2>1. CASE Pass
    <3>1. semaphore' \in Nat
      BY <2>1 DEF Pass, Uncancelled
    <3>2. QED BY <2>1, <3>1 DEF Pass
  <2>2. CASE Block
    BY <2>2 DEF Block
  <2>3. CASE PassDeleted
    BY <2>3 DEF PassDeleted
  <2>4. QED BY <1>4, <2>1, <2>2, <2>3 DEF Waiting
<1>5. ASSUME NEW complete \in BOOLEAN, Iterate(p, complete)
      PROVE  TypeOK'
  BY <1>5 DEF Iterate
<1>6. CASE Finish(p)
  <2>1. Tail(active[p]) \in Seq(Objects) /\ hand[p] \in Objects
    BY <1>6, LineTypes, HeadTailProperties DEF Finish, InHand, AtWork
  <2>2. done' \in [Phases -> SUBSET Objects]
    BY <1>6, <2>1 DEF Finish
  <2>3. active' \in [Phases -> Seq(Objects)]
    BY <1>6, <2>1 DEF Finish
  <2>4. semaphore' \in Nat \cup {Deleted}
    BY <1>6 DEF Finish, Signalled, Uncancelled
  <2>5. QED BY <1>6, <2>2, <2>3, <2>4 DEF Finish
<1>7. CASE Retry(p)
  BY <1>7 DEF Retry, Signalled, Uncancelled
<1>8. QED BY <1>1, <1>2, <1>3, <1>4, <1>5, <1>6, <1>7 DEF Worker

-----------------------------------------------------------------------------
(* The object at hand is the head of what the phase goes through.          *)

LEMMA HandStep ==
  ASSUME TypeOK, InHand, Next
  PROVE  InHand'
<1> USE DEF InHand, TypeOK, queueVars, workerVars, Move, AtWork
<1>1. CASE Adder
  BY <1>1 DEF Adder, AddFirst, SetUpSecond, AddSecond
<1>2. ASSUME NEW p \in Phases, Worker(p)
      PROVE  InHand'
  <2>1. CASE Take(p)
    BY <2>1 DEF Take
  <2>2. CASE Reset(p)
    BY <2>2 DEF Reset
  <2>3. CASE WillSleep(p) \/ WakeUp(p) \/ NextIteration(p)
    BY <2>3 DEF WillSleep, WakeUp, NextIteration
  <2>4. CASE Waiting
    BY <2>4 DEF Waiting, Pass, Block, PassDeleted
  <2>5. ASSUME NEW complete \in BOOLEAN, Iterate(p, complete)
        PROVE  InHand'
    BY <2>5 DEF Iterate
  <2>6. CASE Finish(p)
    BY <2>6 DEF Finish
  <2>7. CASE Retry(p)
    BY <2>7 DEF Retry
  <2>8. QED BY <1>2, <2>1, <2>2, <2>3, <2>4, <2>5, <2>6, <2>7 DEF Worker
<1>3. QED BY <1>1, <1>2 DEF Next

-----------------------------------------------------------------------------
(* What a step does to the line.                                           *)

\* Nothing, but for a signal that changes hands.
Steady ==
  /\ Line' = Line
  /\ Pending(1)' = Pending(1)
  /\ done[1]' = done[1]
  /\ Uncancelled'
  /\ semaphore' + Passed' = semaphore + Passed

LEMMA QuietAdder ==
  ASSUME TypeOK, Uncancelled, SetUpSecond \/ AddSecond
  PROVE  Steady
<1> USE DEF workerVars
<1>1. UNCHANGED <<at, semaphore, done, active>> /\ objects[1]' = objects[1]
  BY LineTypes DEF SetUpSecond, AddSecond, Append1, queueVars, TypeOK
<1>2. Pending(1)' = Pending(1) /\ Passed' = Passed
  BY <1>1 DEF Pending, Passed
<1>3. Line' = Line
  <2>1. CASE SetUpSecond
    BY <2>1 DEF SetUpSecond, queueVars, Line, Pending
  <2>2. CASE AddSecond
    <3>1. objects[2]' = objects[2] \o batch /\ active[2]' = active[2] /\ batch' = <<>>
      BY <2>2, LineTypes DEF AddSecond, Append1, TypeOK
    <3>2. (active[2] \o (objects[2] \o batch)) \o <<>> = (active[2] \o objects[2]) \o batch
      <4>0. active[2] \in Seq(Objects) /\ objects[2] \in Seq(Objects) /\ batch \in Seq(Objects)
        BY LineTypes
      <4>1. active[2] \o (objects[2] \o batch) = (active[2] \o objects[2]) \o batch
        BY <4>0, Regroup
      <4>2. (active[2] \o objects[2]) \o batch \in Seq(Objects)
        BY LineTypes DEF Line, Pending
      <4>3. QED BY <4>1, <4>2, ConcatEmptySeq
    <3>3. QED BY <3>1, <3>2 DEF Line, Pending
  <2>3. QED BY <2>1, <2>2
<1>4. Uncancelled'
  BY <1>1 DEF Uncancelled, SetUpSecond, AddSecond
<1>5. QED BY <1>1, <1>2, <1>3, <1>4 DEF Steady

\* Moving the objects that wait to those that are gone through.
LEMMA QuietReset ==
  ASSUME TypeOK, Uncancelled, NEW p \in Phases, Reset(p)
  PROVE  Steady
<1>1. Pending(p)' = Pending(p)
  <2>1. active[p] = <<>> /\ active[p]' = objects[p] /\ objects[p]' = <<>>
    BY DEF Reset, TypeOK
  <2>2. objects[p] \o <<>> = <<>> \o objects[p]
    BY LineTypes, ConcatEmptySeq
  <2>3. QED BY <2>1, <2>2 DEF Pending
<1>2. \A q \in Phases \ {p} : Pending(q)' = Pending(q)
  BY DEF Reset, TypeOK, Pending
<1>3. Pending(1)' = Pending(1) /\ Pending(2)' = Pending(2)
  BY <1>1, <1>2 DEF Phases
<1>4. Passed' = Passed
  BY DEF Reset, Move, TypeOK, Passed, Phases
<1>5. QED BY <1>3, <1>4 DEF Reset, adderVars, Steady, Line, Uncancelled

LEMMA QuietWorker ==
  ASSUME TypeOK, Uncancelled, NEW p \in Phases,
         \/ Take(p) \/ WillSleep(p) \/ WakeUp(p) \/ NextIteration(p)
         \/ Waiting \/ Retry(p)
         \/ \E complete \in BOOLEAN : Iterate(p, complete)
  PROVE  Steady
<1>1. UNCHANGED <<queueVars, adderVars, done>>
  BY DEF Take, WillSleep, WakeUp, NextIteration, Waiting, Pass, Block, PassDeleted, Retry, Iterate
<1>2. Line' = Line /\ Pending(1)' = Pending(1) /\ done[1]' = done[1]
  BY <1>1 DEF queueVars, adderVars, Line, Pending
<1>3. semaphore' \in Nat /\ semaphore' + Passed' = semaphore + Passed
  <2> USE DEF Uncancelled, Passed, Move, TypeOK, Phases
  <2>1. CASE Take(p)
    BY <2>1 DEF Take
  <2>2. CASE WillSleep(p) \/ WakeUp(p) \/ NextIteration(p)
    BY <2>2 DEF WillSleep, WakeUp, NextIteration
  <2>3. CASE Waiting
    BY <2>3 DEF Waiting, Pass, Block, PassDeleted, Deleted
  <2>4. CASE Retry(p)
    BY <2>4 DEF Retry, Signalled, Deleted
  <2>5. ASSUME NEW complete \in BOOLEAN, Iterate(p, complete)
        PROVE  semaphore' \in Nat /\ semaphore' + Passed' = semaphore + Passed
    BY <2>5 DEF Iterate
  <2>6. QED BY <2>1, <2>2, <2>3, <2>4, <2>5
<1>4. Uncancelled'
  BY <1>1, <1>3 DEF Uncancelled, adderVars
<1>5. QED BY <1>2, <1>3, <1>4 DEF Steady

\* Every step but an addition and the end of an object is steady.
LEMMA SteadyStep ==
  ASSUME TypeOK, Uncancelled, Next,
         ~(Finish(1) \/ Finish(2)), ~\E array \in Arrays : AddFirst(array)
  PROVE  Steady
<1>1. CASE Adder
  BY <1>1, QuietAdder DEF Adder
<1>2. ASSUME NEW p \in Phases, Worker(p)
      PROVE  Steady
  <2>1. ~Finish(p)
    BY DEF Phases
  <2>2. QED BY <1>2, <2>1, QuietReset, QuietWorker DEF Worker
<1>3. QED BY <1>1, <1>2 DEF Next

LEMMA AddStep ==
  ASSUME TypeOK, Uncancelled, NEW array \in Arrays, AddFirst(array)
  PROVE  /\ Line' = Line \o array
         /\ Pending(1)' = Pending(1) \o array
         /\ array \in Seq(Objects)
         /\ done[1]' = done[1]
         /\ Uncancelled'
         /\ semaphore' = semaphore /\ Passed' = Passed
<1>1. array \in Seq(Objects)
  BY ArraysAreSeqs
<1>2. batch = <<>> /\ batch' = array
  BY DEF AddFirst, Uncancelled
<1>3. /\ objects[1]' = objects[1] \o array /\ objects[2]' = objects[2]
      /\ UNCHANGED <<active, at, semaphore, done>>
  BY LineTypes DEF AddFirst, Append1, workerVars, TypeOK
<1>4. Pending(1)' = Pending(1) \o array
  <2>1. active[1] \in Seq(Objects) /\ objects[1] \in Seq(Objects)
    BY LineTypes
  <2>2. active[1] \o (objects[1] \o array) = (active[1] \o objects[1]) \o array
    BY <1>1, <2>1, Regroup
  <2>3. QED BY <1>3, <2>2 DEF Pending
<1>5. Line' = Line \o array
  <2>1. Line = Pending(2) /\ Pending(2)' = Pending(2)
    BY <1>2, <1>3, LineTypes, ConcatEmptySeq DEF Line, Pending
  <2>2. QED BY <1>2, <2>1 DEF Line
<1>6. Uncancelled'
  BY <1>3 DEF Uncancelled, AddFirst
<1>7. Passed' = Passed
  BY <1>3 DEF Passed
<1>8. QED BY <1>1, <1>3, <1>4, <1>5, <1>6, <1>7

LEMMA FinishPending ==
  ASSUME TypeOK, InHand, NEW p \in Phases, Finish(p)
  PROVE  /\ Pending(p) # <<>>
         /\ Pending(p)' = Tail(Pending(p))
         /\ hand[p] = Head(Pending(p))
         /\ \A q \in Phases \ {p} : Pending(q)' = Pending(q) /\ done[q]' = done[q]
         /\ done[p]' = done[p] \cup {hand[p]}
         /\ batch' = batch /\ adding' = adding
<1>1. active[p] # <<>> /\ hand[p] = Head(active[p])
  BY DEF Finish, InHand, AtWork
<1>2. active[p]' = Tail(active[p]) /\ objects[p]' = objects[p]
  BY <1>1 DEF Finish, TypeOK
<1>3. /\ Tail(active[p] \o objects[p]) = Tail(active[p]) \o objects[p]
      /\ Head(active[p] \o objects[p]) = Head(active[p])
      /\ active[p] \o objects[p] # <<>>
  BY <1>1, LineTypes, TailOfConcat
<1>4. \A q \in Phases \ {p} : Pending(q)' = Pending(q) /\ done[q]' = done[q]
  BY DEF Finish, TypeOK, Pending
<1>5. done[p]' = done[p] \cup {hand[p]}
  BY DEF Finish, TypeOK
<1>6. QED BY <1>1, <1>2, <1>3, <1>4, <1>5 DEF Pending, Finish, adderVars

LEMMA FinishFirstStep ==
  ASSUME TypeOK, Uncancelled, InHand, Finish(1)
  PROVE  /\ Line' = Line
         /\ Pending(1) # <<>>
         /\ Pending(1)' = Tail(Pending(1))
         /\ done[1]' = done[1] \cup {Head(Pending(1))}
         /\ Uncancelled'
         /\ Passed' = Passed
         /\ semaphore' = IF Head(Pending(1)) \in Wanted THEN semaphore + 1 ELSE semaphore
         /\ Head(Pending(1)) \in Objects
<1>1. 1 \in Phases /\ 2 \in Phases \ {1}
  BY DEF Phases
<1>2. /\ Pending(1) # <<>> /\ Pending(1)' = Tail(Pending(1)) /\ hand[1] = Head(Pending(1))
      /\ Pending(2)' = Pending(2) /\ done[1]' = done[1] \cup {hand[1]}
      /\ batch' = batch /\ adding' = adding
  BY <1>1, FinishPending
<1>3. Head(Pending(1)) \in Objects
  BY <1>2, LineTypes, HeadTailProperties
<1>4. Passed' = Passed
  BY <1>1 DEF Finish, Move, Passed, TypeOK
<1>5. semaphore' = IF Head(Pending(1)) \in Wanted THEN semaphore + 1 ELSE semaphore
  BY <1>2 DEF Finish, Signalled, Deleted, Uncancelled
<1>6. Uncancelled'
  BY <1>2, <1>5 DEF Uncancelled
<1>7. QED BY <1>2, <1>3, <1>4, <1>5, <1>6 DEF Line

LEMMA FinishSecondStep ==
  ASSUME TypeOK, Uncancelled, InHand, Finish(2)
  PROVE  /\ Line # <<>>
         /\ Line' = Tail(Line)
         /\ Pending(1)' = Pending(1)
         /\ done[1]' = done[1]
         /\ Uncancelled'
         /\ Passed = 1 /\ Passed' = 0
         /\ semaphore' = semaphore
<1>1. 2 \in Phases /\ 1 \in Phases \ {2}
  BY DEF Phases
<1>2. /\ Pending(2) # <<>> /\ Pending(2)' = Tail(Pending(2))
      /\ Pending(1)' = Pending(1) /\ done[1]' = done[1]
      /\ batch' = batch /\ adding' = adding
  BY <1>1, FinishPending
<1>3. Line # <<>> /\ Line' = Tail(Line)
  BY <1>2, LineTypes, TailOfConcat DEF Line
<1>4. Passed = 1 /\ Passed' = 0
  BY <1>1 DEF Finish, Move, Passed, TypeOK
<1>5. semaphore' = semaphore
  BY DEF Finish
<1>6. QED BY <1>2, <1>3, <1>4, <1>5 DEF Uncancelled

-----------------------------------------------------------------------------
(* A step of the phases is one of TwoPhase, and keeps the invariant.       *)

\* The rest of the invariant.
LineInv == Uncancelled /\ Aligned /\ Enough

LEMMA QuietKeeps ==
  ASSUME PhasedInv, Steady
  PROVE  LineInv' /\ UNCHANGED <<Line, Ready>>
<1>1. UNCHANGED <<Line, Ready>>
  BY DEF Steady, Ready
<1>2. Aligned'
  BY DEF Steady, PhasedInv, Aligned
<1>3. Enough'
  BY <1>1 DEF Steady, PhasedInv, Enough
<1>4. QED BY <1>1, <1>2, <1>3 DEF Steady, LineInv

LEMMA AddKeeps ==
  ASSUME PhasedInv, NEW array \in Arrays, AddFirst(array)
  PROVE  LineInv' /\ T!Add(array)
<1> USE DEF PhasedInv
<1>1. /\ Line' = Line \o array /\ Pending(1)' = Pending(1) \o array /\ array \in Seq(Objects)
      /\ done[1]' = done[1] /\ Uncancelled' /\ semaphore' = semaphore /\ Passed' = Passed
  BY AddStep
<1>2. /\ Follows(Line \o array, Pending(1) \o array, done[1])
      /\ Len(Line \o array) - Len(Pending(1) \o array) = Len(Line) - Len(Pending(1))
  BY <1>1, LineTypes, FollowsAdd DEF Aligned
<1>3. Aligned' /\ Ready' = Ready
  BY <1>1, <1>2 DEF Aligned, Ready
<1>4. Enough'
  BY <1>1, <1>3 DEF Enough
<1>5. QED BY <1>1, <1>3, <1>4 DEF LineInv, T!Add

LEMMA FirstKeeps ==
  ASSUME PhasedInv, Finish(1)
  PROVE  LineInv' /\ T!FinishFirst
<1> USE DEF PhasedInv
<1>1. /\ Line' = Line /\ Pending(1) # <<>> /\ Pending(1)' = Tail(Pending(1))
      /\ done[1]' = done[1] \cup {Head(Pending(1))} /\ Uncancelled' /\ Passed' = Passed
      /\ semaphore' = IF Head(Pending(1)) \in Wanted THEN semaphore + 1 ELSE semaphore
      /\ Head(Pending(1)) \in Objects
  BY FinishFirstStep
<1>2. /\ Follows(Line, Tail(Pending(1)), done[1] \cup {Head(Pending(1))})
      /\ Len(Line) - Len(Tail(Pending(1))) = Len(Line) - Len(Pending(1)) + 1
      /\ Len(Line) - Len(Pending(1)) < Len(Line)
  BY <1>1, LineTypes, FollowsFirst DEF Aligned
<1>3. Aligned' /\ Ready' = Ready + 1 /\ Ready < Len(Line)
  BY <1>1, <1>2 DEF Aligned, Ready
<1>4. Enough'
  <2>1. semaphore \in Nat /\ Passed \in Int /\ Ready \in Int
    BY LineTypes DEF Uncancelled
  <2>2. QED BY <1>1, <1>3, <2>1 DEF Enough
<1>5. QED BY <1>1, <1>3, <1>4 DEF LineInv, T!FinishFirst

\* The second phase has a signal, so an object is ready for it.
LEMMA ReadyWhenPassed ==
  ASSUME PhasedInv, Passed = 1
  PROVE  Ready > 0
  BY LineTypes DEF PhasedInv, Enough, Uncancelled

LEMMA SecondKeeps ==
  ASSUME PhasedInv, Finish(2)
  PROVE  LineInv' /\ T!FinishSecond
<1> USE DEF PhasedInv
<1>1. /\ Line' = Tail(Line) /\ Pending(1)' = Pending(1) /\ done[1]' = done[1]
      /\ Uncancelled' /\ Passed = 1 /\ Passed' = 0 /\ semaphore' = semaphore
  BY FinishSecondStep
<1>2. Ready > 0
  BY <1>1, ReadyWhenPassed
<1>3. /\ Follows(Tail(Line), Pending(1), done[1])
      /\ Len(Tail(Line)) - Len(Pending(1)) = Len(Line) - Len(Pending(1)) - 1
  BY <1>2, LineTypes, FollowsSecond DEF Aligned, Ready
<1>4. Aligned' /\ Ready' = Ready - 1
  BY <1>1, <1>3 DEF Aligned, Ready
<1>5. Enough'
  <2>1. semaphore \in Nat /\ Ready \in Int
    BY LineTypes DEF Uncancelled
  <2>2. QED BY <1>1, <1>4, <2>1 DEF Enough
<1>6. QED BY <1>1, <1>2, <1>4, <1>5 DEF LineInv, T!FinishSecond

LEMMA StepMaps ==
  ASSUME PhasedInv, Next
  PROVE  LineInv' /\ (T!Next \/ UNCHANGED T!vars)
<1>0. TypeOK /\ Uncancelled
  BY DEF PhasedInv
<1>1. CASE Steady
  BY <1>1, QuietKeeps DEF T!vars
<1>2. ASSUME NEW array \in Arrays, AddFirst(array)
      PROVE  LineInv' /\ T!Next
  BY <1>2, AddKeeps DEF T!Next
<1>3. CASE SetUpSecond \/ AddSecond
  BY <1>0, <1>1, <1>3, QuietAdder
<1>4. ASSUME NEW p \in Phases, Worker(p)
      PROVE  LineInv' /\ (T!Next \/ UNCHANGED T!vars)
  <2>1. CASE Finish(p)
    <3>1. p = 1 \/ p = 2
      BY DEF Phases
    <3>2. QED BY <2>1, <3>1, FirstKeeps, SecondKeeps DEF T!Next
  <2>2. CASE Reset(p)
    BY <1>0, <1>1, <2>2, QuietReset
  <2>3. CASE \/ Take(p) \/ WillSleep(p) \/ WakeUp(p) \/ NextIteration(p)
             \/ Waiting \/ Retry(p)
             \/ \E complete \in BOOLEAN : Iterate(p, complete)
    BY <1>0, <1>1, <2>3, QuietWorker
  <2>4. QED BY <1>4, <2>1, <2>2, <2>3 DEF Worker
<1>5. QED BY <1>2, <1>3, <1>4 DEF Next, Adder

-----------------------------------------------------------------------------
(* The theorems.                                                           *)

LEMMA PhasedInit == Init => PhasedInv /\ T!Init
<1> SUFFICES ASSUME Init PROVE PhasedInv /\ T!Init
  OBVIOUS
<1>1. <<>> \in Seq(Objects) /\ <<>> \in Seq(CancelStep)
  OBVIOUS
<1>2. TypeOK
  BY <1>1 DEF Init, TypeOK, WorkerAt
<1>3. Line = <<>> /\ Pending(1) = <<>>
  BY DEF Init, Line, Pending, Phases
<1>4. Ready = 0 /\ Passed = 0 /\ semaphore = 0
  BY <1>3 DEF Init, Ready, Passed, Phases
<1>5. Uncancelled /\ InHand /\ Aligned /\ Enough
  BY <1>3, <1>4 DEF Init, Uncancelled, InHand, AtWork, Aligned, Follows, Enough
<1>6. QED BY <1>2, <1>3, <1>4, <1>5 DEF PhasedInv, T!Init

LEMMA PhasedNext == PhasedInv /\ [Next]_vars => PhasedInv' /\ [T!Next]_(T!vars)
<1> SUFFICES ASSUME PhasedInv, [Next]_vars PROVE PhasedInv' /\ [T!Next]_(T!vars)
  OBVIOUS
<1>1. CASE Next
  <2>1. TypeOK'
    BY <1>1, AdderTypes, WorkerTypes DEF Next, PhasedInv
  <2>2. InHand'
    BY <1>1, HandStep DEF PhasedInv
  <2>3. LineInv' /\ (T!Next \/ UNCHANGED T!vars)
    BY <1>1, StepMaps
  <2>4. QED BY <2>1, <2>2, <2>3 DEF PhasedInv, LineInv
<1>2. CASE UNCHANGED vars
  <2>1. UNCHANGED <<Line, Pending(1), Ready, Passed>>
    BY <1>2 DEF vars, queueVars, workerVars, adderVars, Line, Pending, Ready, Passed
  <2>2. PhasedInv'
    BY <1>2, <2>1 DEF vars, queueVars, workerVars, adderVars, PhasedInv, TypeOK, Uncancelled,
       InHand, Aligned, Enough
  <2>3. QED BY <2>1, <2>2 DEF T!vars
<1>3. QED BY <1>1, <1>2

\* What holds as long as nobody cancels.
THEOREM PhasedHolds == Spec => []PhasedInv
<1>1. Init => PhasedInv
  BY PhasedInit
<1>2. PhasedInv /\ [Next]_vars => PhasedInv'
  BY PhasedNext
<1>3. QED BY <1>1, <1>2, PTL DEF Spec

\* The object the second phase is at has been signalled for.
LEMMA WaitsWhenPhased == PhasedInv => WaitsOnPreviousPhase
<1> SUFFICES ASSUME PhasedInv, at[2] \in {"work", "finished", "again"}
             PROVE  hand[2] \in done[1]
  BY DEF WaitsOnPreviousPhase
<1>1. Ready > 0
  BY ReadyWhenPassed DEF Passed
<1>2. TypeOK /\ Aligned
  BY DEF PhasedInv
<1>3. Head(Line) \in done[1]
  BY <1>1, <1>2, LineTypes, FollowsSecond DEF Aligned, Ready
<1>4. active[2] # <<>> /\ hand[2] = Head(active[2])
  BY <1>2, LineTypes DEF PhasedInv, InHand, AtWork
<1>5. Pending(2) # <<>> /\ Head(Pending(2)) = Head(active[2])
  BY <1>2, <1>4, LineTypes, TailOfConcat DEF Pending
<1>6. Head(Line) = Head(Pending(2))
  BY <1>2, <1>5, LineTypes, TailOfConcat DEF Line
<1>7. QED BY <1>3, <1>4, <1>5, <1>6

\* "wait on the previous phase" (SEPhasedConsumer.m:80): it does.
THEOREM SecondWaits == Spec => []WaitsOnPreviousPhase
BY WaitsWhenPhased, PhasedHolds, PTL

\* The two consumers with their semaphore do what two phases promise: objects
\* go through in order, each through the first before the second.
THEOREM PhasesRefine == Spec => RefinesTwoPhase
<1>1. Init => T!Init
  BY PhasedInit
<1>2. PhasedInv /\ [Next]_vars => [T!Next]_(T!vars)
  BY PhasedNext
<1>3. QED BY <1>1, <1>2, PhasedHolds, PTL DEF Spec, RefinesTwoPhase, T!Spec

-----------------------------------------------------------------------------
(* The line of the second phase: no object is in it twice, and one that    *)
(* has left it does not come back.                                         *)

QueueInv ==
  /\ adding = "none" => batch = <<>>
  /\ Distinct(Line)
  /\ Elements(Line) \subseteq offered
  /\ at[2] \in AtWork =>
       /\ hand[2] \in offered
       /\ IF active[2] = <<>> THEN hand[2] \notin Elements(Line)
          ELSE hand[2] = Head(active[2])

\* The object at hand is not finished.
BeforeEnd == AtWork \ {"finished"}

\* What a step may do to the line and to the object at hand.
Forth ==
  /\ offered \subseteq offered'
  /\ \A t \in Elements(Line)' : t \in Elements(Line) \/ t \notin offered
  /\ at[2] = "finished" =>
       (at'[2] = "finished" /\ hand'[2] = hand[2]) \/ hand[2] \notin Elements(Line)'
  /\ at'[2] \in BeforeEnd =>
       \/ at[2] \in BeforeEnd /\ hand'[2] = hand[2]
       \/ at[2] = "top" /\ hand'[2] \in Elements(Line)

LEMMA ElementsOfSeq ==
  ASSUME NEW s \in Seq(Objects)
  PROVE  /\ Elements(s) = {s[i] : i \in 1..Len(s)}
         /\ Elements(s) \subseteq Objects
BY DEF Elements

\* The first element is in front of all that are apart from it.
LEMMA DistinctTail ==
  ASSUME NEW s \in Seq(Objects), s # <<>>, Distinct(s)
  PROVE  /\ Head(s) \in Elements(s)
         /\ Distinct(Tail(s))
         /\ Elements(Tail(s)) = Elements(s) \ {Head(s)}
<1>1. /\ Len(s) \in Nat \ {0}
      /\ Head(s) = s[1]
      /\ Tail(s) \in Seq(Objects)
      /\ DOMAIN Tail(s) = 1..(Len(s) - 1)
      /\ DOMAIN s = 1..Len(s)
      /\ \A i \in 1..(Len(s) - 1) : Tail(s)[i] = s[i + 1]
  BY EmptySeq, LenProperties, HeadTailProperties
<1>2. Head(s) \in Elements(s)
  BY <1>1 DEF Elements
<1>3. Distinct(Tail(s))
  <2> SUFFICES ASSUME NEW i \in 1..(Len(s) - 1), NEW j \in 1..(Len(s) - 1),
                      Tail(s)[i] = Tail(s)[j]
               PROVE  i = j
    BY <1>1 DEF Distinct
  <2>1. i + 1 \in DOMAIN s /\ j + 1 \in DOMAIN s /\ s[i + 1] = s[j + 1]
    BY <1>1
  <2>2. i + 1 = j + 1
    BY <2>1 DEF Distinct
  <2>3. QED BY <2>2
<1>4. Elements(Tail(s)) \subseteq Elements(s) \ {Head(s)}
  <2> SUFFICES ASSUME NEW i \in 1..(Len(s) - 1)
               PROVE  Tail(s)[i] \in Elements(s) \ {Head(s)}
    BY <1>1 DEF Elements
  <2>1. i + 1 \in DOMAIN s /\ 1 \in DOMAIN s /\ i + 1 # 1
    BY <1>1
  <2>2. s[i + 1] # s[1]
    BY <2>1 DEF Distinct
  <2>3. QED BY <1>1, <2>1, <2>2 DEF Elements
<1>5. Elements(s) \ {Head(s)} \subseteq Elements(Tail(s))
  <2> SUFFICES ASSUME NEW i \in DOMAIN s, s[i] # Head(s)
               PROVE  s[i] \in Elements(Tail(s))
    BY DEF Elements
  <2>1. i - 1 \in 1..(Len(s) - 1) /\ (i - 1) + 1 = i
    BY <1>1
  <2>2. QED BY <1>1, <2>1 DEF Elements
<1>6. QED BY <1>2, <1>3, <1>4, <1>5

\* The elements of two arrays in a row.
LEMMA DistinctConcat ==
  ASSUME NEW s \in Seq(Objects), NEW t \in Seq(Objects)
  PROVE  /\ Elements(s \o t) = Elements(s) \cup Elements(t)
         /\ Distinct(s \o t) <=> /\ Distinct(s)
                                /\ Distinct(t)
                                /\ Elements(s) \cap Elements(t) = {}
<1>1. /\ Len(s) \in Nat /\ Len(t) \in Nat
      /\ DOMAIN s = 1..Len(s) /\ DOMAIN t = 1..Len(t)
  BY LenProperties
<1>2. /\ DOMAIN (s \o t) = 1..(Len(s) + Len(t))
      /\ \A i \in 1..(Len(s) + Len(t)) :
           (s \o t)[i] = IF i <= Len(s) THEN s[i] ELSE t[i - Len(s)]
  BY ConcatProperties, LenProperties
<1>3. \A i \in DOMAIN s : i \in DOMAIN (s \o t) /\ (s \o t)[i] = s[i]
  BY <1>1, <1>2
<1>4. \A i \in DOMAIN t : Len(s) + i \in DOMAIN (s \o t) /\ (s \o t)[Len(s) + i] = t[i]
  BY <1>1, <1>2
<1>5. \A i \in DOMAIN (s \o t) :
        \/ i \in DOMAIN s
        \/ i - Len(s) \in DOMAIN t /\ Len(s) + (i - Len(s)) = i
  BY <1>1, <1>2
<1>6. Elements(s \o t) = Elements(s) \cup Elements(t)
  <2>1. Elements(s) \cup Elements(t) \subseteq Elements(s \o t)
    BY <1>3, <1>4 DEF Elements
  <2>2. ASSUME NEW i \in DOMAIN (s \o t)
        PROVE  (s \o t)[i] \in Elements(s) \cup Elements(t)
    BY <1>3, <1>4, <1>5 DEF Elements
  <2>3. QED BY <2>1, <2>2 DEF Elements
<1>7. ASSUME Distinct(s \o t)
      PROVE  Distinct(s) /\ Distinct(t) /\ Elements(s) \cap Elements(t) = {}
  <2>1. Distinct(s)
    BY <1>3, <1>7 DEF Distinct
  <2>2. ASSUME NEW i \in DOMAIN t, NEW j \in DOMAIN t, t[i] = t[j]
        PROVE  i = j
    <3>1. Len(s) + i = Len(s) + j
      BY <1>4, <1>7, <2>2 DEF Distinct
    <3>2. QED BY <1>1, <3>1
  <2>3. ASSUME NEW i \in DOMAIN s, NEW j \in DOMAIN t, s[i] = t[j]
        PROVE  FALSE
    <3>1. i = Len(s) + j
      BY <1>3, <1>4, <1>7, <2>3 DEF Distinct
    <3>2. QED BY <1>1, <3>1
  <2>4. Distinct(t)
    BY <2>2 DEF Distinct
  <2>5. Elements(s) \cap Elements(t) = {}
    BY <2>3 DEF Elements
  <2>6. QED BY <2>1, <2>4, <2>5
<1>8. ASSUME Distinct(s), Distinct(t), Elements(s) \cap Elements(t) = {}
      PROVE  Distinct(s \o t)
  <2> SUFFICES ASSUME NEW i \in DOMAIN (s \o t), NEW j \in DOMAIN (s \o t),
                      (s \o t)[i] = (s \o t)[j]
               PROVE  i = j
    BY DEF Distinct
  <2>1. \A k \in DOMAIN s, l \in DOMAIN t : s[k] # t[l]
    BY <1>8 DEF Elements
  <2>2. CASE i \in DOMAIN s /\ j \in DOMAIN s
    BY <1>3, <1>8, <2>2 DEF Distinct
  <2>3. CASE i \notin DOMAIN s /\ j \notin DOMAIN s
    <3>1. i - Len(s) \in DOMAIN t /\ j - Len(s) \in DOMAIN t
      BY <1>5, <2>3
    <3>2. t[i - Len(s)] = t[j - Len(s)]
      BY <1>4, <1>5, <2>3
    <3>3. i - Len(s) = j - Len(s)
      BY <1>8, <3>1, <3>2 DEF Distinct
    <3>4. QED BY <1>1, <1>2, <3>3
  <2>4. CASE i \in DOMAIN s /\ j \notin DOMAIN s
    BY <1>3, <1>4, <1>5, <2>1, <2>4
  <2>5. CASE i \notin DOMAIN s /\ j \in DOMAIN s
    BY <1>3, <1>4, <1>5, <2>1, <2>5
  <2>6. QED BY <2>2, <2>3, <2>4, <2>5
<1>9. QED BY <1>6, <1>7, <1>8

\* The line is what the phase goes through, what waits and what is still to come.
LEMMA LineParts ==
  ASSUME TypeOK
  PROVE  /\ Line = active[2] \o (objects[2] \o batch)
         /\ objects[2] \o batch \in Seq(Objects)
         /\ active[2] # <<>> => Line # <<>> /\ Head(Line) = Head(active[2])
         /\ active[2] = <<>> => Line = objects[2] \o batch
<1> DEFINE rest == objects[2] \o batch
<1>1. active[2] \in Seq(Objects) /\ objects[2] \in Seq(Objects) /\ batch \in Seq(Objects)
  BY LineTypes
<1>2. rest \in Seq(Objects)
  BY <1>1, ConcatProperties
<1>3. Line = active[2] \o rest
  BY <1>1, Regroup DEF Line, Pending
<1> HIDE DEF rest
<1>4. active[2] # <<>> => Line # <<>> /\ Head(Line) = Head(active[2])
  BY <1>1, <1>2, <1>3, TailOfConcat
<1>5. active[2] = <<>> => Line = rest
  BY <1>2, <1>3, ConcatEmptySeq
<1>6. QED BY <1>2, <1>3, <1>4, <1>5 DEF rest

\* Steps that leave the second phase and its line alone.
LEMMA QueueFrame ==
  ASSUME QueueInv,
         Line' = Line, offered' = offered, adding' = "none" => batch' = <<>>,
         at'[2] = at[2], hand'[2] = hand[2], active'[2] = active[2]
  PROVE  QueueInv' /\ Forth
BY DEF QueueInv, Forth

LEMMA QueueAdder ==
  ASSUME TypeOK, QueueInv, Adder
  PROVE  QueueInv' /\ Forth
<1>1. /\ active[2] \in Seq(Objects) /\ objects[2] \in Seq(Objects)
      /\ batch \in Seq(Objects) /\ Pending(2) \in Seq(Objects) /\ Line \in Seq(Objects)
  BY LineTypes
<1>2. UNCHANGED <<active, at, hand>>
  BY DEF Adder, AddFirst, SetUpSecond, AddSecond, workerVars, queueVars
<1>3. ASSUME NEW array \in Arrays, AddFirst(array)
      PROVE  QueueInv' /\ Forth
  <2>1. /\ adding = "none" /\ batch' = array /\ adding' = "setup"
        /\ Distinct(array) /\ Elements(array) \cap offered = {}
        /\ offered' = offered \cup Elements(array) /\ objects'[2] = objects[2]
    BY <1>3 DEF AddFirst, Append1, TypeOK, Phases
  <2>2. array \in Seq(Objects)
    BY ArraysAreSeqs
  <2>3. Line = Pending(2)
    BY <1>1, <2>1, ConcatEmptySeq DEF QueueInv, Line
  <2>4. Line' = Line \o array
    BY <1>2, <2>1, <2>3 DEF Line, Pending
  <2>5. Elements(Line') = Elements(Line) \cup Elements(array)
    BY <1>1, <2>2, <2>4, DistinctConcat
  <2>6. Distinct(Line')
    BY <1>1, <2>1, <2>2, <2>4, DistinctConcat DEF QueueInv
  <2>7. Elements(Line)' = Elements(Line')
    BY DEF Elements
  <2>8. Distinct(Line)' /\ Elements(Line)' \subseteq offered'
    BY <2>1, <2>5, <2>6, <2>7 DEF QueueInv, Distinct
  <2>9. ASSUME at[2] \in AtWork, active[2] = <<>>
        PROVE  hand[2] \notin Elements(Line)'
    BY <2>1, <2>5, <2>7, <2>9 DEF QueueInv
  <2>10. QueueInv'
    BY <1>2, <2>1, <2>8, <2>9 DEF QueueInv
  <2>11. Forth
    BY <1>2, <2>1, <2>5, <2>7 DEF Forth
  <2>12. QED BY <2>10, <2>11
<1>4. CASE SetUpSecond
  <2>1. Line' = Line
    BY <1>4 DEF SetUpSecond, Line, Pending, queueVars
  <2>2. QED BY <1>2, <1>4, <2>1, QueueFrame DEF SetUpSecond
<1>5. CASE AddSecond
  <2>1. objects'[2] = objects[2] \o batch /\ batch' = <<>> /\ offered' = offered
    BY <1>5 DEF AddSecond, Append1, TypeOK, Phases
  <2>2. Line' = (active[2] \o (objects[2] \o batch)) \o <<>>
    BY <1>2, <2>1 DEF Line, Pending
  <2>3. Line' = Line
    <3>1. Line = active[2] \o (objects[2] \o batch)
      BY LineParts
    <3>2. QED BY <1>1, <2>2, <3>1, ConcatEmptySeq
  <2>4. QED BY <1>2, <2>1, <2>3, QueueFrame
<1>6. QED BY <1>3, <1>4, <1>5 DEF Adder

\* Each step of the second worker but Finish leaves the line as it is.
LEMMA QueueSecond ==
  ASSUME TypeOK, QueueInv, Worker(2)
  PROVE  QueueInv' /\ Forth
<1>1. /\ active[2] \in Seq(Objects) /\ objects[2] \in Seq(Objects)
      /\ batch \in Seq(Objects) /\ Line \in Seq(Objects)
      /\ 2 \in Phases
  BY LineTypes
<1>2. adding' = adding /\ batch' = batch /\ offered' = offered
  BY DEF Worker, Take, Reset, WillSleep, WakeUp, Waiting, Pass, Block, PassDeleted,
         Iterate, Finish, Retry, NextIteration, adderVars
<1> USE <1>1, <1>2 DEF Move, queueVars, AtWork, BeforeEnd
<1>3. ASSUME UNCHANGED queueVars
      PROVE  Line' = Line /\ active'[2] = active[2]
  BY <1>3 DEF Line, Pending
<1>4. \A place : at' = [at EXCEPT ![2] = place] => at'[2] = place
  BY DEF TypeOK
<1>5. \A o : hand' = [hand EXCEPT ![2] = o] => hand'[2] = o
  BY DEF TypeOK
<1>6. CASE Take(2)
  <2>1. active[2] # <<>> /\ at[2] = "top" /\ at'[2] = "await" /\ hand'[2] = Head(active[2])
    BY <1>4, <1>5, <1>6 DEF Take
  <2>2. Line' = Line /\ active'[2] = active[2]
    BY <1>3, <1>6 DEF Take
  <2>3. Head(active[2]) \in Elements(Line)
    BY <2>1, LineParts, DistinctTail DEF QueueInv
  <2>4. QED BY <2>1, <2>2, <2>3 DEF QueueInv, Forth
<1>7. CASE Reset(2)
  <2>1. /\ at[2] \in {"top", "awake"} /\ at'[2] \in {"idle", "between"}
        /\ active[2] = <<>> /\ active'[2] = objects[2] /\ objects'[2] = <<>>
    BY <1>4, <1>7 DEF Reset, TypeOK
  <2>2. Line' = Line
    <3>1. Line' = (objects[2] \o <<>>) \o batch
      BY <2>1 DEF Line, Pending
    <3>2. QED BY <2>1, <3>1, LineParts, ConcatEmptySeq
  <2>3. QED BY <2>1, <2>2 DEF QueueInv, Forth
<1>8. CASE WillSleep(2) \/ WakeUp(2) \/ NextIteration(2)
  <2>1. at[2] \notin AtWork /\ at'[2] \notin AtWork
    BY <1>4, <1>8 DEF WillSleep, WakeUp, NextIteration
  <2>2. Line' = Line
    BY <1>3, <1>8 DEF WillSleep, WakeUp, NextIteration
  <2>3. QED BY <2>1, <2>2 DEF QueueInv, Forth
<1>9. CASE Waiting \/ \E complete \in BOOLEAN : Iterate(2, complete)
  <2>1. at[2] \in BeforeEnd /\ at'[2] \in AtWork /\ hand' = hand
    BY <1>4, <1>9 DEF Waiting, Pass, Block, PassDeleted, Iterate
  <2>2. Line' = Line /\ active'[2] = active[2]
    BY <1>3, <1>9 DEF Waiting, Pass, Block, PassDeleted, Iterate
  <2>3. QED BY <2>1, <2>2 DEF QueueInv, Forth
<1>10. CASE Finish(2)
  <2>1. /\ at[2] = "finished" /\ at'[2] = "between" /\ objects' = objects
        /\ active'[2] = IF active[2] = <<>> THEN <<>> ELSE Tail(active[2])
    BY <1>4, <1>10 DEF Finish, TypeOK
  <2>2. CASE active[2] = <<>>
    <3>1. Line' = Line
      BY <2>1, <2>2 DEF Line, Pending
    <3>2. QED BY <2>1, <2>2, <3>1 DEF QueueInv, Forth
  <2>3. CASE active[2] # <<>>
    <3>1. Line' = (Tail(active[2]) \o objects[2]) \o batch
      BY <2>1, <2>3 DEF Line, Pending
    <3>2. Line' = Tail(active[2]) \o (objects[2] \o batch)
      <4>1. Tail(active[2]) \in Seq(Objects)
        BY <2>3, HeadTailProperties
      <4>2. QED BY <3>1, <4>1, Regroup
    <3>3. Line' = Tail(Line)
      BY <2>3, <3>2, LineParts, TailOfConcat
    <3>4. Line # <<>> /\ Head(Line) = hand[2]
      BY <2>1, <2>3, LineParts DEF QueueInv
    <3>5. Distinct(Line') /\ Elements(Line') = Elements(Line) \ {hand[2]}
      BY <3>3, <3>4, DistinctTail DEF QueueInv
    <3>6. Distinct(Line)' /\ Elements(Line)' = Elements(Line) \ {hand[2]}
      BY <3>5 DEF Distinct, Elements
    <3>7. QED BY <2>1, <3>6 DEF QueueInv, Forth
  <2>4. QED BY <2>2, <2>3
<1>11. CASE Retry(2)
  <2>1. at[2] = "again" /\ at'[2] = "between"
    BY <1>4, <1>11 DEF Retry
  <2>2. Line' = Line
    BY <1>3, <1>11 DEF Retry
  <2>3. QED BY <2>1, <2>2 DEF QueueInv, Forth
<1>12. QED BY <1>6, <1>7, <1>8, <1>9, <1>10, <1>11 DEF Worker

LEMMA QueueFirst ==
  ASSUME TypeOK, QueueInv, Worker(1)
  PROVE  QueueInv' /\ Forth
<1>1. /\ adding' = adding /\ batch' = batch /\ offered' = offered
      /\ at'[2] = at[2] /\ hand'[2] = hand[2]
      /\ active'[2] = active[2] /\ objects'[2] = objects[2]
  BY DEF Worker, Take, Reset, WillSleep, WakeUp, Iterate, Finish, Retry, NextIteration,
         Move, adderVars, queueVars, TypeOK, Phases
<1>2. Line' = Line
  BY <1>1 DEF Line, Pending
<1>3. QED BY <1>1, <1>2, QueueFrame DEF QueueInv

LEMMA QueueCancel ==
  ASSUME TypeOK, QueueInv, BeginCancel \/ Cancel
  PROVE  QueueInv' /\ Forth
<1>1. /\ active[2] \in Seq(Objects) /\ objects[2] \in Seq(Objects)
      /\ batch \in Seq(Objects) /\ Line \in Seq(Objects)
  BY LineTypes
<1>2. adding' = adding /\ batch' = batch /\ offered' = offered /\ hand' = hand
  BY DEF BeginCancel, Cancel, RemoveAll, WillCancel, DeleteSemaphore, CreateSemaphore,
         adderVars, workerVars
<1>3. CASE BeginCancel \/ WillCancel \/ RemoveAll(1) \/ CreateSemaphore
  <2>1. at' = at /\ active'[2] = active[2] /\ objects'[2] = objects[2]
    BY <1>3 DEF BeginCancel, WillCancel, RemoveAll, CreateSemaphore, workerVars, queueVars,
                TypeOK, Phases
  <2>2. Line' = Line
    BY <1>2, <2>1 DEF Line, Pending
  <2>3. QED BY <1>2, <2>1, <2>2, QueueFrame DEF QueueInv
<1>4. CASE DeleteSemaphore
  <2>1. UNCHANGED queueVars
    BY <1>4 DEF DeleteSemaphore
  <2>2. Line' = Line /\ active' = active
    BY <1>2, <2>1 DEF Line, Pending, queueVars
  <2>3. \/ at'[2] = at[2]
        \/ at[2] = "blocked" /\ at'[2] = "work"
    BY <1>4 DEF DeleteSemaphore, TypeOK, Phases
  <2>4. QED BY <1>2, <2>2, <2>3 DEF QueueInv, Forth, AtWork, BeforeEnd
<1>5. CASE RemoveAll(2)
  <2>1. at' = at /\ active'[2] = <<>> /\ objects'[2] = <<>>
    BY <1>5 DEF RemoveAll, workerVars, TypeOK, Phases
  <2>2. Line' = batch
    <3>1. Line' = (<<>> \o <<>>) \o batch
      BY <1>2, <2>1 DEF Line, Pending
    <3>2. QED BY <1>1, <3>1
  <2>3. /\ Distinct(batch)
        /\ Elements(batch) \subseteq Elements(Line)
        /\ Elements(active[2]) \cap Elements(batch) = {}
    <3>1. Line = active[2] \o (objects[2] \o batch)
      BY LineParts
    <3>2. objects[2] \o batch \in Seq(Objects)
      BY LineParts
    <3>3. /\ Distinct(objects[2] \o batch)
          /\ Elements(Line) = Elements(active[2]) \cup Elements(objects[2] \o batch)
          /\ Elements(active[2]) \cap Elements(objects[2] \o batch) = {}
      BY <1>1, <3>1, <3>2, DistinctConcat DEF QueueInv
    <3>4. Distinct(batch) /\ Elements(batch) \subseteq Elements(objects[2] \o batch)
      BY <1>1, <3>3, DistinctConcat
    <3>5. QED BY <3>3, <3>4
  <2>4. active[2] # <<>> => Head(active[2]) \in Elements(active[2])
    <3>1. active[2] # <<>> => 1 \in DOMAIN active[2] /\ Head(active[2]) = active[2][1]
      BY <1>1, EmptySeq, LenProperties
    <3>2. QED BY <3>1 DEF Elements
  <2>5. Distinct(Line)' /\ Elements(Line)' = Elements(batch)
    BY <2>2, <2>3 DEF Distinct, Elements
  <2>6. at[2] \in AtWork => hand[2] \notin Elements(Line)'
    BY <2>3, <2>4, <2>5 DEF QueueInv
  <2>7. QueueInv'
    BY <1>2, <2>1, <2>3, <2>5, <2>6 DEF QueueInv
  <2>8. Forth
    BY <1>2, <2>1, <2>3, <2>5, <2>6 DEF Forth, AtWork, BeforeEnd
  <2>9. QED BY <2>7, <2>8
<1>6. QED BY <1>3, <1>4, <1>5 DEF Cancel

LEMMA QueueStep == TypeOK /\ QueueInv /\ [CancelNext]_vars => QueueInv' /\ Forth
<1> SUFFICES ASSUME TypeOK, QueueInv, [CancelNext]_vars PROVE QueueInv' /\ Forth
  OBVIOUS
<1>1. CASE UNCHANGED vars
  <2>1. UNCHANGED <<active, objects, batch, adding, offered, at, hand>>
    BY <1>1 DEF vars, queueVars, workerVars, adderVars
  <2>2. Line' = Line
    BY <2>1 DEF Line, Pending
  <2>3. QED BY <2>1, <2>2, QueueFrame DEF QueueInv
<1>2. ASSUME NEW p \in Phases, Worker(p)
      PROVE  QueueInv' /\ Forth
  BY <1>2, QueueFirst, QueueSecond DEF Phases
<1>3. QED BY <1>1, <1>2, QueueAdder, QueueCancel DEF CancelNext, Next

-----------------------------------------------------------------------------
(* Nobody cancels: where each object is.                                   *)

Through == done[2] \cup (IF at[2] = "finished" THEN {hand[2]} ELSE {})

FlowInv ==
  /\ Elements(Pending(1)) \cap done[1] = {}
  /\ done[2] \subseteq done[1]
  /\ done[1] \subseteq offered
  /\ offered = done[2] \cup Elements(Line)
  /\ Elements(Line) \cap done[2] = {}

\* What follows at the end of a line is in the line.
LEMMA FollowsElements ==
  ASSUME NEW line \in Seq(Objects), NEW pending \in Seq(Objects), NEW finished,
         Follows(line, pending, finished)
  PROVE  /\ Elements(pending) \subseteq Elements(line)
         /\ Distinct(line) => Distinct(pending)
<1> DEFINE skip == Len(line) - Len(pending)
<1>1. /\ DOMAIN line = 1..Len(line) /\ DOMAIN pending = 1..Len(pending)
      /\ Len(line) \in Nat /\ Len(pending) \in Nat
      /\ skip \in Nat
  BY LenProperties DEF Follows
<1>2. \A i \in DOMAIN pending : skip + i \in DOMAIN line /\ line[skip + i] = pending[i]
  BY <1>1 DEF Follows
<1>3. Elements(pending) \subseteq Elements(line)
  BY <1>2 DEF Elements
<1>4. ASSUME Distinct(line), NEW i \in DOMAIN pending, NEW j \in DOMAIN pending,
             pending[i] = pending[j]
      PROVE  i = j
  <2>1. skip + i = skip + j
    BY <1>2, <1>4 DEF Distinct
  <2>2. QED BY <1>1, <2>1
<1>5. QED BY <1>3, <1>4 DEF Distinct

\* What is pending in the first phase is in the line, once.
LEMMA PendingFirst ==
  ASSUME PhasedInv, QueueInv
  PROVE  /\ Elements(Pending(1)) \subseteq Elements(Line)
         /\ Distinct(Pending(1))
         /\ at[1] \in AtWork => hand[1] \in Elements(Pending(1))
<1>1. TypeOK /\ Aligned /\ InHand
  BY DEF PhasedInv
<1>2. /\ Line \in Seq(Objects) /\ Pending(1) \in Seq(Objects)
      /\ active[1] \in Seq(Objects) /\ objects[1] \in Seq(Objects)
      /\ 1 \in Phases
  BY <1>1, LineTypes
<1>3. Elements(Pending(1)) \subseteq Elements(Line) /\ Distinct(Pending(1))
  BY <1>1, <1>2, FollowsElements DEF Aligned, QueueInv
<1>4. ASSUME at[1] \in AtWork
      PROVE  hand[1] \in Elements(Pending(1))
  <2>1. active[1] # <<>> /\ hand[1] = Head(active[1])
    BY <1>1, <1>2, <1>4 DEF InHand
  <2>2. Pending(1) # <<>> /\ Head(Pending(1)) = hand[1]
    BY <1>2, <2>1, TailOfConcat DEF Pending
  <2>3. QED BY <1>2, <1>3, <2>2, DistinctTail
<1>5. QED BY <1>3, <1>4

\* A track the second phase is through with has been through the first.
LEMMA ThroughDone ==
  ASSUME PhasedInv, QueueInv, FlowInv
  PROVE  /\ Through \subseteq done[1]
         /\ at[2] \in {"work", "finished", "again"} =>
              /\ hand[2] \in done[1]
              /\ active[2] # <<>> /\ hand[2] = Head(active[2])
<1>1. ASSUME at[2] \in {"work", "finished", "again"}
      PROVE  /\ hand[2] \in done[1]
             /\ active[2] # <<>> /\ hand[2] = Head(active[2])
  <2>1. active[2] # <<>> /\ hand[2] = Head(active[2])
    BY <1>1, LineTypes DEF PhasedInv, InHand, AtWork
  <2>2. QED BY <1>1, <2>1, WaitsWhenPhased DEF WaitsOnPreviousPhase
<1>2. QED BY <1>1 DEF Through, FlowInv

\* What a step of the phases does to the tracks that are through.
LEMMA ThroughGrows ==
  ASSUME TypeOK, Next
  PROVE  /\ at'[2] = "finished" =>
              at[2] \in {"work", "finished"} /\ hand'[2] = hand[2]
         /\ done'[2] \subseteq Through
         /\ Finish(1) \/ Finish(2) \/ done' = done
         /\ (\E array \in Arrays : AddFirst(array)) \/ offered' = offered
<1> USE DEF Move, TypeOK, Phases, Through
<1>1. CASE Adder
  BY <1>1 DEF Adder, AddFirst, SetUpSecond, AddSecond, workerVars
<1>2. ASSUME NEW p \in Phases, Worker(p)
      PROVE  /\ at'[2] = "finished" =>
                  at[2] \in {"work", "finished"} /\ hand'[2] = hand[2]
             /\ done'[2] \subseteq Through
             /\ Finish(1) \/ Finish(2) \/ done' = done
             /\ offered' = offered
  <2> USE DEF adderVars
  <2>1. CASE Take(p) \/ Reset(p) \/ WillSleep(p) \/ WakeUp(p) \/ NextIteration(p)
    BY <2>1 DEF Take, Reset, WillSleep, WakeUp, NextIteration
  <2>2. CASE p = 2 /\ Waiting
    BY <2>2 DEF Waiting, Pass, Block, PassDeleted
  <2>3. ASSUME NEW complete \in BOOLEAN, Iterate(p, complete)
        PROVE  /\ at'[2] = "finished" =>
                    at[2] \in {"work", "finished"} /\ hand'[2] = hand[2]
               /\ done' = done /\ offered' = offered
    BY <2>3 DEF Iterate
  <2>4. CASE Finish(p)
    <3>1. /\ at[p] = "finished" /\ at'[p] = "between"
          /\ done'[p] = done[p] \cup {hand[p]} /\ offered' = offered
          /\ \A q \in Phases \ {p} :
               at'[q] = at[q] /\ hand'[q] = hand[q] /\ done'[q] = done[q]
      BY <2>4 DEF Finish
    <3>2. /\ at'[2] = "finished" =>
               at[2] \in {"work", "finished"} /\ hand'[2] = hand[2]
          /\ done'[2] \subseteq Through
          /\ offered' = offered
      BY <3>1
    <3>3. Finish(1) \/ Finish(2)
      BY <2>4
    <3>4. QED BY <3>2, <3>3
  <2>5. CASE Retry(p)
    BY <2>5 DEF Retry
  <2>6. QED BY <1>2, <2>1, <2>2, <2>3, <2>4, <2>5 DEF Worker
<1>3. QED BY <1>1, <1>2 DEF Next

LEMMA FlowStep == PhasedInv /\ QueueInv /\ FlowInv /\ [Next]_vars => FlowInv'
<1> SUFFICES ASSUME PhasedInv, QueueInv, FlowInv, [Next]_vars PROVE FlowInv'
  OBVIOUS
<1>1. /\ TypeOK /\ Uncancelled /\ InHand
      /\ Pending(1) \in Seq(Objects) /\ Line \in Seq(Objects)
  BY LineTypes DEF PhasedInv
<1>2. Elements(Pending(1)) \subseteq offered /\ Distinct(Pending(1))
  BY PendingFirst DEF QueueInv
<1>3. ASSUME Line' = Line, Pending(1)' = Pending(1), done' = done, offered' = offered
      PROVE  FlowInv'
  BY <1>3 DEF FlowInv, Elements
<1>4. ASSUME NEW array \in Arrays, AddFirst(array)
      PROVE  FlowInv'
  <2>1. /\ Line' = Line \o array /\ Pending(1)' = Pending(1) \o array
        /\ array \in Seq(Objects)
    BY <1>1, <1>4, AddStep
  <2>2. /\ Elements(array) \cap offered = {} /\ offered' = offered \cup Elements(array)
        /\ done' = done
    BY <1>4 DEF AddFirst, workerVars
  <2>3. Elements(Line)' = Elements(Line) \cup Elements(array)
    <3>1. Elements(Line \o array) = Elements(Line) \cup Elements(array)
      BY <1>1, <2>1, DistinctConcat
    <3>2. QED BY <2>1, <3>1 DEF Elements
  <2>4. Elements(Pending(1))' = Elements(Pending(1)) \cup Elements(array)
    <3>1. Elements(Pending(1) \o array) = Elements(Pending(1)) \cup Elements(array)
      BY <1>1, <2>1, DistinctConcat
    <3>2. QED BY <2>1, <3>1 DEF Elements
  <2>5. QED BY <2>2, <2>3, <2>4 DEF FlowInv
<1>5. CASE Finish(1)
  <2>1. /\ Line' = Line /\ Pending(1) # <<>> /\ Pending(1)' = Tail(Pending(1))
        /\ done'[1] = done[1] \cup {Head(Pending(1))}
    BY <1>1, <1>5, FinishFirstStep
  <2>2. done'[2] = done[2] /\ offered' = offered
    BY <1>1, <1>5 DEF Finish, TypeOK, Phases, adderVars
  <2>3. /\ Head(Pending(1)) \in Elements(Pending(1))
        /\ Elements(Pending(1))' = Elements(Pending(1)) \ {Head(Pending(1))}
    <3>1. /\ Head(Pending(1)) \in Elements(Pending(1))
          /\ Elements(Tail(Pending(1))) = Elements(Pending(1)) \ {Head(Pending(1))}
      BY <1>1, <1>2, <2>1, DistinctTail
    <3>2. QED BY <2>1, <3>1 DEF Elements
  <2>4. Elements(Line)' = Elements(Line)
    BY <2>1 DEF Elements
  <2>5. QED BY <1>2, <2>1, <2>2, <2>3, <2>4 DEF FlowInv
<1>6. CASE Finish(2)
  <2>1. /\ Line # <<>> /\ Line' = Tail(Line) /\ Pending(1)' = Pending(1)
        /\ done'[1] = done[1]
    BY <1>1, <1>6, FinishSecondStep
  <2>2. /\ done'[2] = done[2] \cup {hand[2]} /\ offered' = offered
        /\ at[2] = "finished"
    BY <1>1, <1>6 DEF Finish, TypeOK, Phases, adderVars
  <2>3. /\ Head(Line) \in Elements(Line)
        /\ Elements(Line)' = Elements(Line) \ {Head(Line)}
    <3>1. /\ Head(Line) \in Elements(Line)
          /\ Elements(Tail(Line)) = Elements(Line) \ {Head(Line)}
      BY <1>1, <2>1, DistinctTail DEF QueueInv
    <3>2. QED BY <2>1, <3>1 DEF Elements
  <2>4. hand[2] = Head(Line) /\ hand[2] \in done[1]
    BY <1>1, <2>2, ThroughDone, LineParts
  <2>5. Elements(Pending(1))' = Elements(Pending(1))
    BY <2>1 DEF Elements
  <2>6. QED BY <2>1, <2>2, <2>3, <2>4, <2>5 DEF FlowInv
<1>7. CASE UNCHANGED vars
  BY <1>3, <1>7 DEF vars, queueVars, workerVars, adderVars, Line, Pending
<1>8. ASSUME Next, ~(Finish(1) \/ Finish(2)), ~\E array \in Arrays : AddFirst(array)
      PROVE  FlowInv'
  <2>1. done' = done /\ offered' = offered
    BY <1>1, <1>8, ThroughGrows
  <2>2. Steady
    BY <1>1, <1>8, SteadyStep
  <2>3. QED BY <1>3, <2>1, <2>2 DEF Steady
<1>9. QED BY <1>4, <1>5, <1>6, <1>7, <1>8

-----------------------------------------------------------------------------
(* Nobody cancels: the signals that have been given and used.              *)

BalanceInv == PhasedInv /\ QueueInv /\ FlowInv /\ Balanced

LEMMA DoneFinite ==
  ASSUME TypeOK
  PROVE  /\ IsFiniteSet(done[1] \cap Wanted) /\ Cardinality(done[1] \cap Wanted) \in Nat
         /\ IsFiniteSet(done[2]) /\ Cardinality(done[2]) \in Nat
<1>1. done[1] \cap Wanted \in SUBSET Objects /\ done[2] \in SUBSET Objects
  BY DEF TypeOK, Phases
<1>2. IsFiniteSet(Objects)
  BY PhasedAssumption
<1>3. IsFiniteSet(done[1] \cap Wanted) /\ IsFiniteSet(done[2])
  BY <1>1, <1>2, FS_Subset
<1>4. QED BY <1>3, FS_CardinalityType

\* The first phase signals for an object it had not finished before.
LEMMA BalanceFirst ==
  ASSUME BalanceInv, Finish(1)
  PROVE  Balanced'
<1>1. /\ TypeOK /\ Uncancelled /\ InHand /\ Pending(1) \in Seq(Objects)
      /\ semaphore \in Nat /\ Passed \in Int
  BY LineTypes DEF BalanceInv, PhasedInv, Uncancelled
<1> DEFINE head == Head(Pending(1))
<1>2. /\ Pending(1) # <<>> /\ done'[1] = done[1] \cup {head} /\ Passed' = Passed
      /\ semaphore' = IF head \in Wanted THEN semaphore + 1 ELSE semaphore
  BY <1>1, FinishFirstStep
<1>3. done'[2] = done[2]
  BY <1>1 DEF Finish, TypeOK, Phases
<1>4. head \notin done[1]
  <2>1. head \in Elements(Pending(1))
    BY <1>1, <1>2, PendingFirst, DistinctTail DEF BalanceInv
  <2>2. QED BY <2>1 DEF BalanceInv, FlowInv
<1> HIDE DEF head
<1>5. CASE head \in Wanted
  <2>1. done'[1] \cap Wanted = (done[1] \cap Wanted) \cup {head}
    BY <1>2, <1>5
  <2>2. Cardinality(done'[1] \cap Wanted) = Cardinality(done[1] \cap Wanted) + 1
    BY <1>1, <1>4, <2>1, DoneFinite, FS_AddElement
  <2>3. QED BY <1>1, <1>2, <1>3, <1>5, <2>2, DoneFinite DEF BalanceInv, Balanced
<1>6. CASE head \notin Wanted
  <2>1. done'[1] \cap Wanted = done[1] \cap Wanted
    BY <1>2, <1>6
  <2>2. QED BY <1>2, <1>3, <1>6, <2>1 DEF BalanceInv, Balanced
<1>7. QED BY <1>5, <1>6

\* The second phase has used a signal up for an object it had not finished before.
LEMMA BalanceSecond ==
  ASSUME BalanceInv, Finish(2)
  PROVE  Balanced'
<1>1. TypeOK /\ Uncancelled /\ InHand /\ Line \in Seq(Objects) /\ semaphore \in Nat
  BY LineTypes DEF BalanceInv, PhasedInv, Uncancelled
<1>2. /\ Line # <<>> /\ Passed = 1 /\ Passed' = 0 /\ semaphore' = semaphore
      /\ done'[1] = done[1]
  BY <1>1, FinishSecondStep
<1>3. done'[2] = done[2] \cup {hand[2]} /\ at[2] = "finished"
  BY <1>1 DEF Finish, TypeOK, Phases
<1>4. hand[2] \notin done[2]
  <2>1. hand[2] = Head(Line)
    BY <1>1, <1>3, ThroughDone, LineParts DEF BalanceInv
  <2>2. Head(Line) \in Elements(Line)
    BY <1>1, <1>2, DistinctTail DEF BalanceInv, QueueInv
  <2>3. QED BY <2>1, <2>2 DEF BalanceInv, FlowInv
<1>5. Cardinality(done'[2]) = Cardinality(done[2]) + 1
  BY <1>1, <1>3, <1>4, DoneFinite, FS_AddElement
<1>6. QED BY <1>1, <1>2, <1>5, DoneFinite DEF BalanceInv, Balanced

LEMMA BalanceStep == BalanceInv /\ [Next]_vars => BalanceInv'
<1> SUFFICES ASSUME BalanceInv, [Next]_vars PROVE BalanceInv'
  OBVIOUS
<1>1. PhasedInv' /\ FlowInv'
  BY PhasedNext, FlowStep DEF BalanceInv
<1>2. QueueInv'
  BY QueueStep DEF BalanceInv, PhasedInv, CancelNext
<1>3. Balanced'
  <2>1. ASSUME semaphore' + Passed' = semaphore + Passed, done' = done
        PROVE  Balanced'
    BY <2>1 DEF BalanceInv, Balanced
  <2>2. TypeOK /\ Uncancelled
    BY DEF BalanceInv, PhasedInv
  <2>3. CASE Finish(1) \/ Finish(2)
    BY <2>3, BalanceFirst, BalanceSecond
  <2>4. ASSUME NEW array \in Arrays, AddFirst(array)
        PROVE  Balanced'
    BY <2>1, <2>2, <2>4, AddStep DEF AddFirst, workerVars
  <2>5. ASSUME Next, ~(Finish(1) \/ Finish(2)), ~\E array \in Arrays : AddFirst(array)
        PROVE  Balanced'
    <3>1. done' = done
      BY <2>2, <2>5, ThroughGrows
    <3>2. Steady
      BY <2>2, <2>5, SteadyStep
    <3>3. QED BY <2>1, <3>1, <3>2 DEF Steady
  <2>6. CASE UNCHANGED vars
    <3>1. semaphore' = semaphore /\ at' = at /\ done' = done
      BY <2>6 DEF vars, workerVars
    <3>2. QED BY <2>1, <3>1 DEF Passed
  <2>7. QED BY <2>3, <2>4, <2>5, <2>6
<1>4. QED BY <1>1, <1>2, <1>3 DEF BalanceInv

LEMMA BalanceInit == Init => BalanceInv
<1> SUFFICES ASSUME Init PROVE BalanceInv
  OBVIOUS
<1>1. Line = <<>> /\ Pending(1) = <<>> /\ at[2] = "top"
  BY DEF Init, Line, Pending, Phases
<1>2. Elements(Line) = {} /\ Distinct(Line) /\ Elements(Pending(1)) = {}
  BY <1>1 DEF Elements, Distinct
<1>3. done[1] = {} /\ done[2] = {} /\ offered = {} /\ semaphore = 0
  BY DEF Init, Phases
<1>4. QueueInv /\ FlowInv
  BY <1>1, <1>2, <1>3 DEF Init, QueueInv, AtWork, FlowInv
<1>5. Balanced
  BY <1>1, <1>3, FS_EmptySet DEF Balanced, Passed
<1>6. QED BY <1>4, <1>5, PhasedInit DEF BalanceInv

\* As many signals have been given as objects are through the first phase that the
\* second should process, and as many used as objects are through the second: each
\* retry has given back what it took (SEPhasedConsumer.m:81-88).
THEOREM SemaphoreBalanced == Spec => []Balanced
<1>1. BalanceInv => Balanced
  BY DEF BalanceInv
<1>2. QED BY <1>1, BalanceInit, BalanceStep, PTL DEF Spec

-----------------------------------------------------------------------------
(* With a cancel: types.                                                   *)

\* A phase at work has an object at hand, cancelled or not.
Held == \A p \in Phases : at[p] \in AtWork => hand[p] \in Objects

LEMMA CancelTodo == CancelBoth \in Seq(CancelStep) /\ <<>> \in Seq(CancelStep)
BY DEF CancelBoth, CancelFirst, CancelSecond, CancelStep

LEMMA PhasedWorkerTypes ==
  ASSUME TypeOK, Held, NEW p \in Phases, Worker(p)
  PROVE  TypeOK' /\ Held'
<1> USE DEF TypeOK, Held, AtWork, queueVars, adderVars, Move, WorkerAt
<1>1. CASE Take(p)
  <2>1. Head(active[p]) \in Objects
    BY <1>1, LineTypes, HeadTailProperties DEF Take
  <2>2. QED BY <1>1, <2>1 DEF Take
<1>2. CASE Reset(p)
  <2>1. <<>> \in Seq(Objects)
    OBVIOUS
  <2>2. QED BY <1>2, <2>1 DEF Reset
<1>3. CASE WillSleep(p) \/ NextIteration(p)
  BY <1>3 DEF WillSleep, NextIteration
<1>4. CASE WakeUp(p)
  <2>1. wake' \in [Phases -> 0..1]
    BY <1>4 DEF WakeUp
  <2>2. QED BY <1>4, <2>1 DEF WakeUp
<1>5. CASE Waiting
  <2>1. CASE Pass
    <3>1. semaphore' \in Nat
      BY <2>1 DEF Pass, Deleted
    <3>2. QED BY <2>1, <3>1 DEF Pass
  <2>2. CASE Block
    BY <2>2 DEF Block
  <2>3. CASE PassDeleted
    BY <2>3 DEF PassDeleted
  <2>4. QED BY <1>5, <2>1, <2>2, <2>3 DEF Waiting
<1>6. ASSUME NEW complete \in BOOLEAN, Iterate(p, complete)
      PROVE  TypeOK' /\ Held'
  BY <1>6 DEF Iterate
<1>7. Signalled \in Nat \cup {Deleted}
  BY DEF Signalled, Deleted
<1>8. CASE Finish(p)
  <2>1. (IF active[p] = <<>> THEN <<>> ELSE Tail(active[p])) \in Seq(Objects)
    BY LineTypes, HeadTailProperties
  <2>2. active' \in [Phases -> Seq(Objects)]
    BY <1>8, <2>1 DEF Finish
  <2>3. hand[p] \in Objects
    BY <1>8 DEF Finish
  <2>4. done' \in [Phases -> SUBSET Objects]
    BY <1>8, <2>3 DEF Finish
  <2>5. semaphore' \in Nat \cup {Deleted}
    BY <1>7, <1>8 DEF Finish
  <2>6. QED BY <1>8, <2>2, <2>4, <2>5 DEF Finish
<1>9. CASE Retry(p)
  <2>1. semaphore' \in Nat \cup {Deleted}
    BY <1>7, <1>9 DEF Retry
  <2>2. QED BY <1>9, <2>1 DEF Retry
<1>10. QED BY <1>1, <1>2, <1>3, <1>4, <1>5, <1>6, <1>8, <1>9 DEF Worker

LEMMA CancelTypes ==
  ASSUME TypeOK, Held, BeginCancel \/ Cancel
  PROVE  TypeOK' /\ Held'
<1> USE DEF TypeOK, Held, AtWork, queueVars, workerVars, adderVars, WorkerAt
<1>1. CASE BeginCancel
  BY <1>1, CancelTodo DEF BeginCancel
<1>2. ASSUME NEW name, Step(name)
      PROVE  todo' \in Seq(CancelStep)
  BY <1>2, HeadTailProperties DEF Step
<1>3. <<>> \in Seq(Objects) /\ 0 \in Nat
  OBVIOUS
<1>4. ASSUME NEW p \in Phases, RemoveAll(p)
      PROVE  TypeOK' /\ Held'
  <2>1. todo' \in Seq(CancelStep)
    BY <1>2, <1>4 DEF RemoveAll
  <2>2. QED BY <1>3, <1>4, <2>1 DEF RemoveAll
<1>5. CASE WillCancel
  <2>1. todo' \in Seq(CancelStep)
    BY <1>2, <1>5 DEF WillCancel
  <2>2. QED BY <1>5, <2>1 DEF WillCancel
<1>6. CASE DeleteSemaphore
  <2>1. todo' \in Seq(CancelStep)
    BY <1>2, <1>6 DEF DeleteSemaphore
  <2>2. QED BY <1>6, <2>1 DEF DeleteSemaphore, Deleted
<1>7. CASE CreateSemaphore
  <2>1. todo' \in Seq(CancelStep)
    BY <1>2, <1>7 DEF CreateSemaphore
  <2>2. QED BY <1>3, <1>7, <2>1 DEF CreateSemaphore
<1>8. QED BY <1>1, <1>4, <1>5, <1>6, <1>7, LineTypes DEF Cancel

LEMMA CancelledTypes ==
  ASSUME TypeOK, Held, [CancelNext]_vars
  PROVE  TypeOK' /\ Held'
<1>1. CASE Adder
  <2>1. at' = at /\ hand' = hand
    BY <1>1 DEF Adder, AddFirst, SetUpSecond, AddSecond, workerVars
  <2>2. QED BY <1>1, <2>1, AdderTypes DEF Held
<1>2. CASE UNCHANGED vars
  BY <1>2 DEF vars, queueVars, workerVars, adderVars, TypeOK, Held
<1>3. QED BY <1>1, <1>2, PhasedWorkerTypes, CancelTypes DEF CancelNext, Next

-----------------------------------------------------------------------------
(* With a cancel: each phase is a queue.                                   *)

\* An object is at hand as long as a phase is at work, and it is the next one of
\* those gone through unless they have been cancelled.
AtHand ==
  \A p \in Phases :
    /\ hand[p] # Nil => at[p] \in AtWork
    /\ hand[p] # Nil /\ active[p] # <<>> => hand[p] = Head(active[p])

BatchKept == adding # "none" => batch \in Arrays

QueuesInv == TypeOK /\ Held /\ AtHand /\ BatchKept

\* Nothing that the queue of a phase is made of changes.
QueueStays(p) ==
  /\ hand[p]' = hand[p]
  /\ Behind(p)' = Behind(p)
  /\ CancelledAtWork(p)' = CancelledAtWork(p)

\* The steps of a queue, read from a phase.
QueuePuts(p, array) ==
  /\ Behind(p)' = Behind(p) \o array
  /\ hand[p]' = hand[p]
  /\ CancelledAtWork(p)' = CancelledAtWork(p)

QueueTakes(p) ==
  /\ hand[p] = Nil /\ Behind(p) # <<>>
  /\ hand[p]' = Head(Behind(p)) /\ Behind(p)' = Tail(Behind(p))
  /\ CancelledAtWork(p)' = CancelledAtWork(p)

QueueFinishes(p) ==
  /\ hand[p] # Nil /\ hand[p]' = Nil /\ CancelledAtWork(p)' = FALSE
  /\ Behind(p)' = Behind(p)

QueueRetries(p) ==
  /\ hand[p] # Nil /\ hand[p]' = Nil /\ CancelledAtWork(p)' = FALSE
  /\ Behind(p)' = IF CancelledAtWork(p) THEN Behind(p) ELSE <<hand[p]>> \o Behind(p)

QueueCancels(p) ==
  /\ Behind(p)' = <<>> /\ CancelledAtWork(p)' = (hand[p] # Nil)
  /\ hand[p]' = hand[p]

Other(p) == IF p = 1 THEN 2 ELSE 1

\* What a step of a phase is to its queue.
OwnMoves(p) ==
  \/ Take(p) /\ QueueTakes(p)
  \/ Finish(p) /\ QueueFinishes(p)
  \/ Retry(p) /\ QueueRetries(p)
  \/ RemoveAll(p) /\ QueueCancels(p)

\* What a step is to the two queues.
QueuesMove ==
  \/ \E array \in Arrays : AddFirst(array) /\ QueuePuts(1, array) /\ QueueStays(2)
  \/ AddSecond /\ batch \in Arrays /\ QueuePuts(2, batch) /\ QueueStays(1)
  \/ \E p \in Phases : OwnMoves(p) /\ QueueStays(Other(p))
  \/ UNCHANGED <<batch, offered>> /\ QueueStays(1) /\ QueueStays(2)

LEMMA QueueMaps ==
  ASSUME QueuesMove
  PROVE  [First!Next]_(First!vars) /\ [Second!Next]_(Second!vars)
<1>1. /\ QueueStays(1) => UNCHANGED First!vars
      /\ QueueStays(2) => UNCHANGED Second!vars
  BY DEF QueueStays, First!vars, Second!vars
<1>2. OwnMoves(1) => First!Next
  BY DEF OwnMoves, QueueTakes, QueueFinishes, QueueRetries, QueueCancels, First!Next,
         First!Take, First!Finish, First!Retry, First!Cancel
<1>3. OwnMoves(2) => Second!Next
  BY DEF OwnMoves, QueueTakes, QueueFinishes, QueueRetries, QueueCancels, Second!Next,
         Second!Take, Second!Finish, Second!Retry, Second!Cancel
<1>4. \A array \in Arrays : /\ QueuePuts(1, array) => First!Next
                            /\ QueuePuts(2, array) => Second!Next
  BY DEF QueuePuts, First!Next, First!Put, Second!Next, Second!Put
<1>5. \A p \in Phases : p = 1 \/ p = 2
  BY DEF Phases
<1>6. QED BY <1>1, <1>2, <1>3, <1>4, <1>5 DEF QueuesMove, Other

LEMMA FrontAndRest ==
  ASSUME NEW s \in Seq(Objects), s # <<>>
  PROVE  /\ Head(s) \in Objects /\ Tail(s) \in Seq(Objects)
         /\ <<Head(s)>> \in Seq(Objects)
         /\ <<Head(s)>> \o Tail(s) = s
<1> DEFINE front == <<Head(s)>>
           rest == Tail(s)
<1>1. /\ Len(s) \in Nat \ {0} /\ Head(s) \in Objects /\ Head(s) = s[1]
      /\ rest \in Seq(Objects)
      /\ Len(rest) = Len(s) - 1
      /\ \A i \in 1..(Len(s) - 1) : rest[i] = s[i + 1]
  BY EmptySeq, LenProperties, HeadTailProperties
<1>2. front \in Seq(Objects) /\ Len(front) = 1 /\ front[1] = Head(s)
  BY <1>1
<1> HIDE DEF front, rest
<1>3. /\ front \o rest \in Seq(Objects)
      /\ Len(front \o rest) = Len(front) + Len(rest)
      /\ \A i \in 1..(Len(front) + Len(rest)) :
           (front \o rest)[i] = IF i <= Len(front) THEN front[i] ELSE rest[i - Len(front)]
  BY <1>1, <1>2, ConcatProperties
<1>4. Len(front \o rest) = Len(s)
  BY <1>1, <1>2, <1>3
<1>5. \A i \in 1..Len(s) : (front \o rest)[i] = s[i]
  <2> TAKE i \in 1..Len(s)
  <2>1. i \in 1..(Len(front) + Len(rest))
    BY <1>1, <1>2
  <2>2. CASE i = 1
    BY <1>1, <1>2, <1>3, <2>1, <2>2
  <2>3. CASE i # 1
    <3>1. i - 1 \in 1..(Len(s) - 1) /\ (i - 1) + 1 = i /\ ~(i <= Len(front))
          /\ i - Len(front) = i - 1
      BY <1>1, <1>2, <2>3
    <3>2. (front \o rest)[i] = rest[i - 1]
      BY <1>3, <2>1, <3>1
    <3>3. QED BY <1>1, <3>1, <3>2
  <2>4. QED BY <2>2, <2>3
<1>6. front \o rest = s
  BY <1>3, <1>4, <1>5, SeqEqual
<1>7. QED BY <1>1, <1>2, <1>6 DEF front, rest

\* The object at hand and what is behind it are what the phase still has to do.
LEMMA HandBehind ==
  ASSUME TypeOK, NEW p \in Phases, active[p] # <<>>
  PROVE  /\ Pending(p) = <<Head(active[p])>> \o (Tail(active[p]) \o objects[p])
         /\ Pending(p) # <<>>
         /\ Head(Pending(p)) = Head(active[p])
         /\ Tail(Pending(p)) = Tail(active[p]) \o objects[p]
<1> DEFINE front == <<Head(active[p])>>
           rest == Tail(active[p])
           more == objects[p]
<1>1. active[p] \in Seq(Objects) /\ more \in Seq(Objects)
  BY LineTypes
<1>2. /\ front \in Seq(Objects) /\ rest \in Seq(Objects)
      /\ active[p] = front \o rest
  BY <1>1, FrontAndRest
<1>3. Pending(p) = active[p] \o more
  BY DEF Pending
<1>4. /\ Pending(p) # <<>> /\ Head(Pending(p)) = Head(active[p])
      /\ Tail(Pending(p)) = rest \o more
  BY <1>1, <1>3, TailOfConcat
<1> HIDE DEF front, rest, more
<1>5. front \o (rest \o more) = (front \o rest) \o more
  BY <1>1, <1>2, Regroup
<1>6. Pending(p) = front \o (rest \o more)
  BY <1>2, <1>3, <1>5
<1>7. QED BY <1>4, <1>6 DEF front, rest, more

\* Steps that leave the arrays and the hand of a phase alone.
LEMMA QueueUntouched ==
  ASSUME NEW p \in Phases,
         hand[p]' = hand[p], active[p]' = active[p], objects[p]' = objects[p]
  PROVE  QueueStays(p)
BY DEF QueueStays, Behind, CancelledAtWork

\* An array is added to a phase.
LEMMA QueueAdds ==
  ASSUME TypeOK, NEW p \in Phases, NEW array \in Arrays,
         hand[p]' = hand[p], active[p]' = active[p], objects[p]' = objects[p] \o array
  PROVE  QueuePuts(p, array)
<1> DEFINE front == IF hand[p] # Nil /\ active[p] # <<>> THEN Tail(active[p]) ELSE active[p]
<1>1. active[p] \in Seq(Objects) /\ objects[p] \in Seq(Objects) /\ array \in Seq(Objects)
  BY LineTypes, ArraysAreSeqs
<1>2. front \in Seq(Objects)
  BY <1>1, HeadTailProperties
<1>3. Behind(p) = front \o objects[p] /\ Behind(p)' = front \o (objects[p] \o array)
  BY DEF Behind
<1> DEFINE more == objects[p]
<1> HIDE DEF front
<1>4. front \o (more \o array) = (front \o more) \o array
  BY <1>1, <1>2, Regroup
<1>5. Behind(p)' = Behind(p) \o array
  BY <1>3, <1>4
<1>6. CancelledAtWork(p)' = CancelledAtWork(p)
  BY DEF CancelledAtWork
<1>7. QED BY <1>5, <1>6 DEF QueuePuts

LEMMA QueuesAdder ==
  ASSUME QueuesInv, Adder
  PROVE  AtHand' /\ BatchKept' /\ QueuesMove
<1>1. TypeOK /\ UNCHANGED <<active, hand, at>> /\ 1 \in Phases /\ 2 \in Phases
  BY DEF QueuesInv, Adder, AddFirst, SetUpSecond, AddSecond, workerVars, queueVars, Phases
<1>2. AtHand' /\ BatchKept'
  BY <1>1 DEF QueuesInv, AtHand, BatchKept, Adder, AddFirst, SetUpSecond, AddSecond
<1>3. ASSUME NEW array \in Arrays, AddFirst(array)
      PROVE  QueuesMove
  <2>1. objects[1]' = objects[1] \o array /\ objects[2]' = objects[2]
    BY <1>1, <1>3 DEF AddFirst, Append1, TypeOK
  <2>2. QueuePuts(1, array) /\ QueueStays(2)
    BY <1>1, <2>1, QueueAdds, QueueUntouched
  <2>3. QED BY <1>3, <2>2 DEF QueuesMove
<1>4. CASE SetUpSecond
  <2>1. UNCHANGED <<batch, offered, objects>>
    BY <1>4 DEF SetUpSecond, queueVars
  <2>2. QueueStays(1) /\ QueueStays(2)
    BY <1>1, <2>1, QueueUntouched
  <2>3. QED BY <1>2, <2>1, <2>2 DEF QueuesMove
<1>5. CASE AddSecond
  <2>1. objects[2]' = objects[2] \o batch /\ objects[1]' = objects[1]
    BY <1>1, <1>5 DEF AddSecond, Append1, TypeOK
  <2>2. batch \in Arrays
    BY <1>5 DEF AddSecond, QueuesInv, BatchKept
  <2>3. QueuePuts(2, batch) /\ QueueStays(1)
    BY <1>1, <2>1, <2>2, QueueAdds, QueueUntouched
  <2>4. QED BY <1>2, <1>5, <2>2, <2>3 DEF QueuesMove
<1>6. QED BY <1>2, <1>3, <1>4, <1>5 DEF Adder

\* A step of a worker does to its own phase what a queue does.
LEMMA QueuesOwn ==
  ASSUME QueuesInv, NEW p \in Phases, Worker(p)
  PROVE  OwnMoves(p) \/ QueueStays(p)
<1>1. /\ TypeOK /\ Held /\ AtHand
      /\ active[p] \in Seq(Objects) /\ objects[p] \in Seq(Objects)
  BY LineTypes DEF QueuesInv
<1>2. at[p] \in AtWork <=> hand[p] # Nil
  BY <1>1, PhasedAssumption DEF Held, AtHand
<1> USE DEF Move, queueVars, AtWork
<1>3. CASE Take(p)
  <2>1. /\ hand[p] = Nil /\ active[p] # <<>> /\ hand[p]' = Head(active[p])
        /\ active[p]' = active[p] /\ objects[p]' = objects[p]
    BY <1>1, <1>2, <1>3 DEF Take, TypeOK
  <2>2. hand[p]' # Nil
    BY <1>1, <2>1, HeadTailProperties, PhasedAssumption
  <2>3. Behind(p) = Pending(p) /\ Behind(p)' = Tail(active[p]) \o objects[p]
    BY <2>1, <2>2 DEF Behind, Pending
  <2>4. CancelledAtWork(p)' = CancelledAtWork(p)
    BY <2>1 DEF CancelledAtWork
  <2>5. QueueTakes(p)
    BY <1>1, <2>1, <2>3, <2>4, HandBehind DEF QueueTakes
  <2>6. QED BY <1>3, <2>5 DEF OwnMoves
<1>4. CASE Reset(p)
  <2>1. /\ hand[p] = Nil /\ hand[p]' = Nil /\ active[p] = <<>>
        /\ active[p]' = objects[p] /\ objects[p]' = <<>>
    BY <1>1, <1>2, <1>4 DEF Reset, TypeOK
  <2>2. Behind(p) = <<>> \o objects[p] /\ Behind(p)' = objects[p] \o <<>>
    BY <2>1 DEF Behind
  <2>3. Behind(p)' = Behind(p)
    BY <1>1, <2>2, ConcatEmptySeq
  <2>4. QED BY <2>1, <2>3 DEF QueueStays, CancelledAtWork
<1>5. CASE \/ WillSleep(p) \/ WakeUp(p) \/ NextIteration(p) \/ Waiting
           \/ \E complete \in BOOLEAN : Iterate(p, complete)
  <2>1. UNCHANGED <<hand, queueVars>>
    BY <1>5 DEF WillSleep, WakeUp, NextIteration, Waiting, Pass, Block, PassDeleted, Iterate
  <2>2. QED BY <2>1, QueueUntouched
<1>6. CASE Finish(p)
  <2>1. /\ hand[p] # Nil /\ hand[p]' = Nil /\ objects[p]' = objects[p]
        /\ active[p]' = IF active[p] = <<>> THEN <<>> ELSE Tail(active[p])
    BY <1>1, <1>2, <1>6 DEF Finish, TypeOK
  <2>2. Behind(p)' = Behind(p)
    BY <2>1 DEF Behind
  <2>3. CancelledAtWork(p)' = FALSE
    BY <2>1 DEF CancelledAtWork
  <2>4. QED BY <1>6, <2>1, <2>2, <2>3 DEF OwnMoves, QueueFinishes
<1>7. CASE Retry(p)
  <2>1. /\ hand[p] # Nil /\ hand[p]' = Nil
        /\ active[p]' = active[p] /\ objects[p]' = objects[p]
    BY <1>1, <1>2, <1>7 DEF Retry, TypeOK
  <2>2. Behind(p)' = active[p] \o objects[p] /\ CancelledAtWork(p)' = FALSE
    BY <2>1 DEF Behind, CancelledAtWork
  <2>3. CASE active[p] = <<>>
    <3>1. CancelledAtWork(p) /\ Behind(p)' = Behind(p)
      BY <2>1, <2>2, <2>3 DEF Behind, CancelledAtWork
    <3>2. QED BY <1>7, <2>1, <2>2, <3>1 DEF OwnMoves, QueueRetries
  <2>4. CASE active[p] # <<>>
    <3>1. hand[p] = Head(active[p]) /\ ~CancelledAtWork(p)
      BY <1>1, <2>1, <2>4 DEF AtHand, CancelledAtWork
    <3>2. Behind(p) = Tail(active[p]) \o objects[p]
      BY <2>1, <2>4 DEF Behind
    <3>3. Behind(p)' = <<hand[p]>> \o Behind(p)
      BY <1>1, <2>2, <2>4, <3>1, <3>2, HandBehind DEF Pending
    <3>4. QED BY <1>7, <2>1, <2>2, <3>1, <3>3 DEF OwnMoves, QueueRetries
  <2>5. QED BY <2>3, <2>4
<1>8. QED BY <1>3, <1>4, <1>5, <1>6, <1>7 DEF Worker

LEMMA QueuesWorker ==
  ASSUME QueuesInv, NEW p \in Phases, Worker(p)
  PROVE  AtHand' /\ BatchKept' /\ QueuesMove
<1> USE DEF TypeOK, Move, queueVars, workerVars, AtWork
<1>1. TypeOK /\ Held /\ AtHand
  BY DEF QueuesInv
<1>2. \A q \in Phases \ {p} :
        /\ hand[q]' = hand[q] /\ active[q]' = active[q] /\ objects[q]' = objects[q]
  BY <1>1 DEF Worker, Take, Reset, WillSleep, WakeUp, NextIteration, Waiting, Pass, Block,
              PassDeleted, Iterate, Finish, Retry
<1>3. \A q \in Phases \ {p} : at[q]' = at[q]
  BY <1>1 DEF Worker, Take, Reset, WillSleep, WakeUp, NextIteration, Waiting, Pass, Block,
              PassDeleted, Iterate, Finish, Retry
<1>4. /\ hand[p]' # Nil => at[p]' \in AtWork
      /\ hand[p]' # Nil /\ active[p]' # <<>> => hand[p]' = Head(active[p])'
  <2>1. CASE Take(p)
    BY <1>1, <2>1 DEF Take
  <2>2. CASE Reset(p)
    BY <1>1, <2>2 DEF Reset, AtHand
  <2>3. CASE WillSleep(p) \/ WakeUp(p) \/ NextIteration(p)
    BY <1>1, <2>3 DEF WillSleep, WakeUp, NextIteration, AtHand
  <2>4. CASE p = 2 /\ Waiting
    BY <1>1, <2>4 DEF Waiting, Pass, Block, PassDeleted, AtHand
  <2>5. ASSUME NEW complete \in BOOLEAN, Iterate(p, complete)
        PROVE  /\ hand[p]' # Nil => at[p]' \in AtWork
               /\ hand[p]' # Nil /\ active[p]' # <<>> => hand[p]' = Head(active[p])'
    BY <1>1, <2>5 DEF Iterate, AtHand
  <2>6. CASE Finish(p) \/ Retry(p)
    BY <1>1, <2>6 DEF Finish, Retry
  <2>7. QED BY <2>1, <2>2, <2>3, <2>4, <2>5, <2>6 DEF Worker
<1>5. AtHand'
  BY <1>1, <1>2, <1>3, <1>4 DEF AtHand
<1>6. adding' = adding /\ batch' = batch /\ offered' = offered
  BY DEF Worker, Take, Reset, WillSleep, WakeUp, NextIteration, Waiting, Pass, Block,
         PassDeleted, Iterate, Finish, Retry, adderVars
<1>7. BatchKept'
  BY <1>6 DEF QueuesInv, BatchKept
<1>8. QueuesMove
  <2>1. Other(p) \in Phases /\ Other(p) # p /\ (p = 1 \/ p = 2)
    BY DEF Other, Phases
  <2>2. QueueStays(Other(p))
    BY <1>2, <2>1, QueueUntouched
  <2>3. CASE OwnMoves(p)
    BY <2>2, <2>3 DEF QueuesMove
  <2>4. CASE QueueStays(p)
    BY <1>6, <2>1, <2>2, <2>4 DEF QueuesMove, Other
  <2>5. QED BY <2>3, <2>4, QueuesOwn
<1>9. QED BY <1>5, <1>7, <1>8

LEMMA QueuesCancel ==
  ASSUME QueuesInv, BeginCancel \/ Cancel
  PROVE  AtHand' /\ BatchKept' /\ QueuesMove
<1>1. TypeOK /\ Held /\ AtHand
  BY DEF QueuesInv
<1>2. hand' = hand /\ adding' = adding /\ batch' = batch /\ offered' = offered
  BY DEF BeginCancel, Cancel, RemoveAll, WillCancel, DeleteSemaphore, CreateSemaphore,
         workerVars, adderVars
<1>3. BatchKept'
  BY <1>2 DEF QueuesInv, BatchKept
<1>4. \A p \in Phases : at[p]' = at[p] \/ (at[p] = "blocked" /\ at[p]' = "work")
  BY <1>1 DEF BeginCancel, Cancel, RemoveAll, WillCancel, DeleteSemaphore, CreateSemaphore,
              workerVars, TypeOK
<1>5. ASSUME NEW q \in Phases, RemoveAll(q), NEW p \in Phases
      PROVE  IF p = q THEN objects[p]' = <<>> /\ active[p]' = <<>>
             ELSE objects[p]' = objects[p] /\ active[p]' = active[p]
  BY <1>1, <1>5 DEF RemoveAll, TypeOK
<1>6. CASE BeginCancel \/ WillCancel \/ DeleteSemaphore \/ CreateSemaphore
  <2>1. UNCHANGED queueVars
    BY <1>6 DEF BeginCancel, WillCancel, DeleteSemaphore, CreateSemaphore
  <2>2. AtHand'
    BY <1>1, <1>2, <1>4, <2>1 DEF AtHand, AtWork, queueVars
  <2>3. QueueStays(1) /\ QueueStays(2)
    BY <1>2, <2>1, QueueUntouched DEF queueVars, Phases
  <2>4. QED BY <1>2, <1>3, <2>2, <2>3 DEF QueuesMove
<1>7. ASSUME NEW q \in Phases, RemoveAll(q)
      PROVE  AtHand' /\ QueuesMove
  <2>1. AtHand'
    BY <1>1, <1>2, <1>4, <1>5, <1>7 DEF AtHand, AtWork
  <2>2. QueueStays(Other(q))
    <3>1. Other(q) \in Phases /\ Other(q) # q
      BY DEF Other, Phases
    <3>2. QED BY <1>2, <1>5, <1>7, <3>1, QueueUntouched
  <2>3. Behind(q)' = <<>>
    <3>1. Behind(q)' = <<>> \o <<>>
      BY <1>5, <1>7 DEF Behind
    <3>2. <<>> \in Seq(Objects)
      OBVIOUS
    <3>3. QED BY <3>1, <3>2, ConcatEmptySeq
  <2>4. CancelledAtWork(q)' = (hand[q] # Nil)
    BY <1>2, <1>5, <1>7 DEF CancelledAtWork
  <2>5. QueueCancels(q)
    BY <1>2, <2>3, <2>4 DEF QueueCancels
  <2>6. QED BY <1>7, <2>1, <2>2, <2>5 DEF QueuesMove, OwnMoves
<1>8. 1 \in Phases /\ 2 \in Phases
  BY DEF Phases
<1>9. QED BY <1>3, <1>6, <1>7, <1>8 DEF Cancel

LEMMA QueuesStep ==
  ASSUME QueuesInv, [CancelNext]_vars
  PROVE  QueuesInv' /\ QueuesMove
<1>1. AtHand' /\ BatchKept' /\ QueuesMove
  <2>1. CASE UNCHANGED vars
    <3>1. UNCHANGED <<at, hand, active, objects, adding, batch, offered>>
      BY <2>1 DEF vars, queueVars, workerVars, adderVars
    <3>2. AtHand' /\ BatchKept'
      BY <3>1 DEF QueuesInv, AtHand, BatchKept
    <3>3. QueueStays(1) /\ QueueStays(2)
      BY <3>1, QueueUntouched DEF Phases
    <3>4. QED BY <3>1, <3>2, <3>3 DEF QueuesMove
  <2>2. QED BY <2>1, QueuesAdder, QueuesWorker, QueuesCancel DEF CancelNext, Next
<1>2. TypeOK' /\ Held'
  BY CancelledTypes DEF QueuesInv
<1>3. QED BY <1>1, <1>2 DEF QueuesInv

LEMMA QueuesInit == Init => QueuesInv /\ First!Init /\ Second!Init
<1> SUFFICES ASSUME Init PROVE QueuesInv /\ First!Init /\ Second!Init
  OBVIOUS
<1>1. TypeOK
  BY PhasedInit DEF PhasedInv
<1>2. Held /\ AtHand /\ BatchKept
  BY DEF Init, Held, AtHand, BatchKept, AtWork
<1>3. \A p \in Phases : Behind(p) = <<>> /\ ~CancelledAtWork(p) /\ hand[p] = Nil
  BY DEF Init, Behind, CancelledAtWork
<1>4. 1 \in Phases /\ 2 \in Phases
  BY DEF Phases
<1>5. QED BY <1>1, <1>2, <1>3, <1>4 DEF QueuesInv, First!Init, Second!Init

\* The two consumers in a row, cancelled at any time, are each the queue that
\* SEConsumer.h:17-46 promises: nothing the phases do together, the semaphore and
\* its deletion included, loses an object, takes one twice or out of turn.
THEOREM PhasesStayQueues == CancelSpec => PhasesAreQueues
<1>1. QueuesInv /\ [CancelNext]_vars =>
        QueuesInv' /\ [First!Next]_(First!vars) /\ [Second!Next]_(Second!vars)
  BY QueuesStep, QueueMaps
<1>2. QED
  BY <1>1, QueuesInit, PTL DEF CancelSpec, PhasesAreQueues, First!Spec, Second!Spec
=============================================================================
