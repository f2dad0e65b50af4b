----------------------------- MODULE CopyStatus ------------------------------
(***************************************************************************)
(* The `copying' flag of SECopyController: each consumer sets isWorking    *)
(* and then posts consumerDidStart: or consumerDidFinish: to the main      *)
(* thread (SEConsumer.m:94-103), which serves the posts in order and on a  *)
(* finish asks the consumers, one after the other, whether they work       *)
(* (SECopyController.m:268-275).                                           *)
(***************************************************************************)
EXTENDS Naturals, Sequences

CONSTANTS
  Consumers,   \* the consumers that report to the controller
  MaxMail      \* bound: the posts that wait for the main thread

ASSUME MailAssumption == MaxMail \in Nat

VARIABLES
  isWorking,   \* per consumer
  at,          \* per consumer: where its worker is
  mail,        \* the posts the main thread has not served
  unasked,     \* the consumers consumerDidFinish: still has to ask
  copying

vars == <<isWorking, at, mail, unasked, copying>>

\* A worker comes up busy, although isWorking is still NO.
Places == {"busy", "postFinish", "asleep", "postStart"}
Posts == {"start", "finish"} \X Consumers

TypeOK ==
  /\ isWorking \in [Consumers -> BOOLEAN]
  /\ at \in [Consumers -> Places]
  /\ mail \in Seq(Posts)
  /\ unasked \subseteq Consumers
  /\ copying \in BOOLEAN

Init ==
  /\ isWorking = [c \in Consumers |-> FALSE]
  /\ at = [c \in Consumers |-> "busy"]
  /\ mail = <<>>
  /\ unasked = {}
  /\ copying = FALSE

-----------------------------------------------------------------------------
(* The workers: setIsWorking:.                                             *)

SetIdle(c) ==
  /\ at[c] = "busy"
  /\ isWorking' = [isWorking EXCEPT ![c] = FALSE]
  /\ at' = [at EXCEPT ![c] = "postFinish"]
  /\ UNCHANGED <<mail, unasked, copying>>

SetWorking(c) ==
  /\ at[c] = "asleep"
  /\ isWorking' = [isWorking EXCEPT ![c] = TRUE]
  /\ at' = [at EXCEPT ![c] = "postStart"]
  /\ UNCHANGED <<mail, unasked, copying>>

\* performSelectorOnMainThread: waitUntilDone:NO
Post(c, from, kind, to) ==
  /\ at[c] = from
  /\ Len(mail) < MaxMail
  /\ mail' = Append(mail, <<kind, c>>)
  /\ at' = [at EXCEPT ![c] = to]
  /\ UNCHANGED <<isWorking, unasked, copying>>

PostStart(c) == Post(c, "postStart", "start", "busy")

\* Mutant: only the start is posted.
PostNothing(c) ==
  /\ at[c] = "postFinish"
  /\ at' = [at EXCEPT ![c] = "asleep"]
  /\ UNCHANGED <<isWorking, mail, unasked, copying>>

PostFinish(c) == Post(c, "postFinish", "finish", "asleep")

-----------------------------------------------------------------------------
(* The main thread serves a post when it is not inside consumerDidFinish:. *)

DidStart ==
  /\ unasked = {}
  /\ mail # <<>>
  /\ Head(mail)[1] = "start"
  /\ copying' = TRUE
  /\ mail' = Tail(mail)
  /\ UNCHANGED <<isWorking, at, unasked>>

\* Mutant: a finish is taken at its word.
DidFinishUnasked ==
  /\ unasked = {}
  /\ mail # <<>>
  /\ Head(mail)[1] = "finish"
  /\ copying' = FALSE
  /\ mail' = Tail(mail)
  /\ UNCHANGED <<isWorking, at, unasked>>

DidFinish ==
  /\ unasked = {}
  /\ mail # <<>>
  /\ Head(mail)[1] = "finish"
  /\ unasked' = Consumers
  /\ mail' = Tail(mail)
  /\ UNCHANGED <<isWorking, at, copying>>

\* One that works ends the asking; when none does, copying is over.
AskWorking(c) ==
  /\ c \in unasked
  /\ unasked' = IF isWorking[c] THEN {} ELSE unasked \ {c}
  /\ copying' = (copying /\ (isWorking[c] \/ unasked # {c}))
  /\ UNCHANGED <<isWorking, at, mail>>

-----------------------------------------------------------------------------
Worker(c) == SetIdle(c) \/ SetWorking(c) \/ PostStart(c) \/ PostFinish(c)

Main == DidStart \/ DidFinish \/ \E c \in Consumers : AskWorking(c)

Next == (\E c \in Consumers : Worker(c)) \/ Main

Spec == Init /\ [][Next]_vars

\* The run loop serves its posts, and a post that has been decided on is made.
FairSpec ==
  Spec /\ WF_vars(Main) /\ \A c \in Consumers : WF_vars(PostStart(c) \/ PostFinish(c))

-----------------------------------------------------------------------------
(* Safety.                                                                 *)

Settled ==
  /\ mail = <<>>
  /\ unasked = {}
  /\ \A c \in Consumers : at[c] \in {"busy", "asleep"}

\* When all posts have been served, the flag says whether a consumer works:
\* whatever the order of the posts, and although the consumers are asked one
\* after the other while they go on.
FlagIsRight == Settled => (copying <=> \E c \in Consumers : isWorking[c])

\* A consumer that works and is not shown to be copying has a start on its way,
\* so that the flag is never down for good.
StartOnItsWay(c) ==
  at[c] = "postStart" \/ \E i \in DOMAIN mail : mail[i] = <<"start", c>>

NeverDownForGood ==
  ~copying => \A c \in Consumers : isWorking[c] => StartOnItsWay(c)

(* Liveness.                                                               *)

\* The end of the last consumer's work is shown, unless work begins again.
EndShown ==
  (\A c \in Consumers : ~isWorking[c]) ~> ~copying \/ \E c \in Consumers : isWorking[c]
=============================================================================
