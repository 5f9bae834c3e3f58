---------------------------- MODULE PlayerProofs ----------------------------
(***************************************************************************)
(* What the player and its components exchange, for any handlers: the      *)
(* command that is awaited is in the component's queue, or its handler has *)
(* yet to reply, or the reply is there; all else in the queue are the      *)
(* CONTINUEs of threads that had seen it empty.  And where the player is   *)
(* in the list of a command.                                               *)
(*                                                                         *)
(* Of the handlers these proofs know the three ways in which they reply,   *)
(* that the audio decoder is created at "init", in the middle of a start,  *)
(* and that the video renderer wakes the decoder at "wakePost".            *)
(***************************************************************************)
EXTENDS Player, SequenceTheorems, TLAPS

USE CapacityAssumption

Message == Command \cup {"continue"}

\* There is no command in the queue, or m is the only one.
NoCommand(q) == \A i \in 1 .. Len(q) : q[i] = "continue"
OneCommand(q, m) ==
    \E i \in 1 .. Len(q) : q[i] = m /\ \A j \in 1 .. Len(q) : j # i => q[j] = "continue"

NoReply(r) == \A m \in Command : r[m] = 0
OneReply(r, m) == r[m] = 1 /\ \A k \in Command : k # m => r[k] = 0

\* n threads have seen the queue q empty and are about to post to it.
Quiet(q, n) == NoCommand(q) /\ Len(q) + n <= 2

Asked(m, q, n, o, r) == OneCommand(q, m) /\ Len(q) + n <= 3 /\ o = "none" /\ NoReply(r)
Busy(m, q, n, at, o, r) ==
    /\ Quiet(q, n) /\ NoReply(r)
    /\ \/ o = m /\ at \in {"check", "post"}
       \/ o = "none" /\ at = "init"
Answered(m, q, n, o, r) == Quiet(q, n) /\ o = "none" /\ OneReply(r, m)
AtRest(q, n, o, r) == Quiet(q, n) /\ o = "none" /\ NoReply(r)

\* m is awaited, of a component whose thread is at "at".
Exchange(m, q, n, at, o, r) ==
    /\ at = "init" => m # "none" /\ Busy(m, q, n, at, o, r)
    /\ \/ m = "none" /\ AtRest(q, n, o, r)
       \/ /\ m # "none"
          /\ Asked(m, q, n, o, r) \/ Busy(m, q, n, at, o, r) \/ Answered(m, q, n, o, r)

AwaitedOf(c) ==
    IF waiting /\ Head(player.todo).to = c THEN Head(player.todo).what ELSE "none"

-----------------------------------------------------------------------------
(* Queues.                                                                 *)

LEMMA AppendContinue ==
    ASSUME NEW q \in Seq(Message)
    PROVE  /\ Append(q, "continue") \in Seq(Message)
           /\ Len(Append(q, "continue")) = Len(q) + 1
           /\ NoCommand(q) => NoCommand(Append(q, "continue"))
           /\ \A m : OneCommand(q, m) => OneCommand(Append(q, "continue"), m)
<1> DEFINE a == Append(q, "continue")
<1>1. a \in Seq(Message) /\ Len(a) = Len(q) + 1 /\ a[Len(q) + 1] = "continue"
      /\ Len(q) \in Nat /\ \A i \in 1 .. Len(q) : a[i] = q[i]
  BY DEF Message
<1> HIDE DEF a
<1>2. NoCommand(q) => NoCommand(a)
  BY <1>1 DEF NoCommand
<1>3. ASSUME NEW m, OneCommand(q, m) PROVE OneCommand(a, m)
  <2>1. PICK i \in 1 .. Len(q) : q[i] = m /\ \A j \in 1 .. Len(q) : j # i => q[j] = "continue"
    BY <1>3 DEF OneCommand
  <2>2. i \in 1 .. Len(a) /\ a[i] = m
    BY <1>1, <2>1
  <2>3. \A j \in 1 .. Len(a) : j # i => a[j] = "continue"
    BY <1>1, <2>1
  <2> QED BY <2>2, <2>3 DEF OneCommand
<1> QED BY <1>1, <1>2, <1>3 DEF a

LEMMA AppendCommand ==
    ASSUME NEW q \in Seq(Message), NEW m \in Command, NoCommand(q)
    PROVE  /\ Append(q, m) \in Seq(Message)
           /\ Len(Append(q, m)) = Len(q) + 1
           /\ OneCommand(Append(q, m), m)
<1>1. Append(q, m) \in Seq(Message) /\ Len(Append(q, m)) = Len(q) + 1
  BY DEF Message
<1>2. OneCommand(Append(q, m), m)
  <2>1. Append(q, m)[Len(q) + 1] = m
    BY DEF Message
  <2>2. \A j \in 1 .. Len(q) : Append(q, m)[j] = "continue"
    BY DEF Message, NoCommand
  <2> QED BY <1>1, <2>1, <2>2 DEF OneCommand
<1> QED BY <1>1, <1>2

LEMMA TakeCommand ==
    ASSUME NEW q \in Seq(Message), q # <<>>
    PROVE  /\ Tail(q) \in Seq(Message) /\ Len(Tail(q)) = Len(q) - 1
           /\ NoCommand(q) => Head(q) = "continue" /\ NoCommand(Tail(q))
           /\ \A m : OneCommand(q, m) /\ Head(q) # "continue" => Head(q) = m /\ NoCommand(Tail(q))
           /\ \A m \in Command : OneCommand(q, m) /\ Head(q) = "continue" => OneCommand(Tail(q), m)
<1>1. /\ Tail(q) \in Seq(Message) /\ Len(Tail(q)) = Len(q) - 1 /\ Len(q) \in Nat /\ Len(q) >= 1
      /\ Head(q) = q[1]
      /\ \A i \in 1 .. Len(Tail(q)) : i + 1 \in 1 .. Len(q) /\ Tail(q)[i] = q[i + 1]
  OBVIOUS
<1>2. NoCommand(q) => Head(q) = "continue" /\ NoCommand(Tail(q))
  BY <1>1 DEF NoCommand
<1>3. ASSUME NEW m, OneCommand(q, m), Head(q) # "continue"
      PROVE  Head(q) = m /\ NoCommand(Tail(q))
  <2>1. PICK i \in 1 .. Len(q) : q[i] = m /\ \A j \in 1 .. Len(q) : j # i => q[j] = "continue"
    BY <1>3 DEF OneCommand
  <2>2. i = 1
    BY <1>1, <1>3, <2>1
  <2> QED BY <1>1, <2>1, <2>2 DEF NoCommand
<1>4. ASSUME NEW m \in Command, OneCommand(q, m), Head(q) = "continue"
      PROVE  OneCommand(Tail(q), m)
  <2>1. PICK i \in 1 .. Len(q) : q[i] = m /\ \A j \in 1 .. Len(q) : j # i => q[j] = "continue"
    BY <1>4 DEF OneCommand
  <2>2. i # 1
    BY <1>1, <1>4, <2>1 DEF Command
  <2>3. i - 1 \in 1 .. Len(Tail(q)) /\ Tail(q)[i - 1] = m
    BY <1>1, <2>1, <2>2
  <2>4. \A j \in 1 .. Len(Tail(q)) : j # i - 1 => Tail(q)[j] = "continue"
    BY <1>1, <2>1, <2>2
  <2> QED BY <2>3, <2>4 DEF OneCommand
<1> QED BY <1>1, <1>2, <1>3, <1>4

LEMMA OneIsNotNone ==
    ASSUME NEW q, NEW m \in Command, OneCommand(q, m)
    PROVE  ~NoCommand(q) /\ (q \in Seq(Message) => q # <<>>)
BY DEF OneCommand, NoCommand, Command

-----------------------------------------------------------------------------
(* The steps of an exchange.                                               *)

\* A command that is taken is the one that is awaited, and nothing else is
\* under way.
LEMMA Taken ==
    ASSUME NEW m \in Command \cup {"none"}, NEW q \in Seq(Message), NEW n \in Nat, NEW at,
           NEW o, NEW r,
           Exchange(m, q, n, at, o, r), q # <<>>, Head(q) \in Command
    PROVE  m = Head(q) /\ Quiet(Tail(q), n) /\ o = "none" /\ NoReply(r)
<1>1. Head(q) # "continue"
  BY DEF Command
<1>2. ~NoCommand(q)
  BY <1>1, TakeCommand
<1>3. m # "none" /\ Asked(m, q, n, o, r)
  BY <1>2 DEF Exchange, AtRest, Busy, Answered, Quiet
<1>4. Head(q) = m /\ NoCommand(Tail(q)) /\ Len(Tail(q)) = Len(q) - 1
  BY <1>1, <1>3, TakeCommand DEF Asked
<1> QED BY <1>3, <1>4 DEF Asked, Quiet

LEMMA ContinueTaken ==
    ASSUME NEW m \in Command \cup {"none"}, NEW q \in Seq(Message), NEW n \in Nat, NEW at2,
           NEW o, NEW r,
           Exchange(m, q, n, "get", o, r), q # <<>>, Head(q) = "continue", at2 # "init"
    PROVE  Exchange(m, Tail(q), n, at2, o, r)
<1>1. Len(Tail(q)) = Len(q) - 1 /\ Len(q) \in Nat
  BY TakeCommand
<1>2. NoCommand(q) => NoCommand(Tail(q))
  BY TakeCommand
<1>3. \A k \in Command : OneCommand(q, k) => OneCommand(Tail(q), k)
  BY TakeCommand
<1>4. Quiet(q, n) => Quiet(Tail(q), n)
  BY <1>1, <1>2 DEF Quiet
<1>5. m # "none" /\ Asked(m, q, n, o, r) => Asked(m, Tail(q), n, o, r)
  BY <1>1, <1>3 DEF Asked
<1> QED BY <1>4, <1>5 DEF Exchange, AtRest, Busy, Answered

\* The queue is found empty.
LEMMA FoundEmpty ==
    ASSUME NEW m \in Command \cup {"none"}, NEW n \in 0 .. 1, NEW o, NEW r,
           Exchange(m, <<>>, n, "check", o, r)
    PROVE  Exchange(m, <<>>, n + 1, "post", o, r)
<1>1. \A k : ~OneCommand(<<>>, k)
  BY DEF OneCommand
<1>2. Quiet(<<>>, n + 1)
  BY DEF Quiet, NoCommand
<1> QED BY <1>1, <1>2 DEF Exchange, AtRest, Asked, Busy, Answered

\* A handler ends with the reply that it owes.
LEMMA Ended ==
    ASSUME NEW m \in Command \cup {"none"}, NEW q, NEW n, NEW at, NEW at2,
           NEW o \in Command \cup {"none"}, NEW r \in [Command -> Nat],
           Exchange(m, q, n, at, o, r), at # "init", at2 # "init"
    PROVE  Exchange(m, q, n, at2, "none", IF o = "none" THEN r ELSE [r EXCEPT ![o] = @ + 1])
<1>1. CASE o = "none"
  <2>1. ~(m # "none" /\ Busy(m, q, n, at, o, r))
    BY <1>1 DEF Busy
  <2> QED BY <1>1, <2>1 DEF Exchange, AtRest, Asked, Answered
<1>2. CASE o # "none"
  <2>1. m # "none" /\ Busy(m, q, n, at, o, r)
    BY <1>2 DEF Exchange, AtRest, Asked, Answered
  <2>2. OneReply([r EXCEPT ![o] = @ + 1], m)
    BY <1>2, <2>1 DEF Busy, OneReply, NoReply
  <2> QED BY <1>2, <2>1, <2>2 DEF Exchange, Busy, Answered
<1> QED BY <1>1, <1>2

\* A thread that had seen the queue empty posts its CONTINUE.
LEMMA Continued ==
    ASSUME NEW m \in Command \cup {"none"}, NEW q \in Seq(Message), NEW n \in Nat \ {0},
           NEW at, NEW o, NEW r, Exchange(m, q, n, at, o, r)
    PROVE  Exchange(m, Append(q, "continue"), n - 1, at, o, r)
<1>1. Len(Append(q, "continue")) = Len(q) + 1 /\ Len(q) \in Nat
  BY AppendContinue
<1>2. NoCommand(q) => NoCommand(Append(q, "continue"))
  BY AppendContinue
<1>3. OneCommand(q, m) => OneCommand(Append(q, "continue"), m)
  BY AppendContinue
<1>4. Quiet(q, n) => Quiet(Append(q, "continue"), n - 1)
  BY <1>1, <1>2 DEF Quiet
<1>5. Asked(m, q, n, o, r) => Asked(m, Append(q, "continue"), n - 1, o, r)
  BY <1>1, <1>3 DEF Asked
<1> QED BY <1>4, <1>5 DEF Exchange, AtRest, Busy, Answered

\* Nothing moves but the thread, which owes no reply.
LEMMA Moved ==
    ASSUME NEW m \in Command \cup {"none"}, NEW q, NEW n, NEW at, NEW at2, NEW o, NEW r,
           Exchange(m, q, n, at, o, r), at # "init", at2 # "init",
           at \notin {"check", "post"} \/ at2 \in {"check", "post"}
    PROVE  Exchange(m, q, n, at2, o, r)
BY DEF Exchange, Busy

\* The player asks, and is answered.
LEMMA Sent ==
    ASSUME NEW q \in Seq(Message), NEW n \in Nat, NEW at, NEW o, NEW r, NEW m \in Command,
           Exchange("none", q, n, at, o, r)
    PROVE  Exchange(m, Append(q, m), n, at, o, r) /\ OneCommand(Append(q, m), m)
<1>1. AtRest(q, n, o, r) /\ m # "none"
  BY DEF Exchange, Command
<1>2. OneCommand(Append(q, m), m) /\ Len(Append(q, m)) = Len(q) + 1
  BY <1>1, AppendCommand DEF AtRest, Quiet
<1> QED BY <1>1, <1>2 DEF Exchange, AtRest, Asked, Quiet

LEMMA Returned ==
    ASSUME NEW q, NEW n, NEW at, NEW o, NEW r \in [Command -> Nat], NEW m \in Command,
           Exchange(m, q, n, at, o, r), r[m] > 0
    PROVE  Exchange("none", q, n, at, o, [r EXCEPT ![m] = @ - 1]) /\ NoCommand(q)
<1>1. Answered(m, q, n, o, r) /\ at # "init"
  BY DEF Exchange, Asked, Busy, NoReply, Command
<1>2. NoReply([r EXCEPT ![m] = @ - 1])
  BY <1>1 DEF Answered, OneReply, NoReply
<1> QED BY <1>1, <1>2 DEF Exchange, Answered, AtRest, Quiet

\* No queue is full when a thread is about to post to it.
LEMMA RoomLeft ==
    ASSUME NEW m \in Command \cup {"none"}, NEW q \in Seq(Message), NEW n \in Nat, NEW at,
           NEW o, NEW r, Exchange(m, q, n, at, o, r), n > 0 \/ m = "none"
    PROVE  Len(q) < Capacity
<1>1. Len(q) \in Nat /\ Len(q) + n <= 3
  BY DEF Exchange, AtRest, Asked, Busy, Answered, Quiet
<1>2. m = "none" => Len(q) + n <= 2
  BY DEF Exchange, AtRest, Quiet
<1> QED BY <1>1, <1>2

-----------------------------------------------------------------------------
(* The player's side.                                                      *)

Step == [to : Comp, what : Command] \cup [to : {"player"}, what : OwnSteps]

PlayerType ==
    /\ player \in [status : Status \cup {"cleared"}, straight : BOOLEAN, todo : Seq(Step)]
    /\ waiting \in BOOLEAN
    /\ waiting => player.todo # <<>> /\ Head(player.todo).to \in Comp

LoopType ==
    /\ mq \in [Comp -> Seq(Message)]
    /\ pc = [c \in Comp |-> pc[c]]
    /\ owed \in [Comp -> Command \cup {"none"}]
    /\ replies \in [Comp -> [Command -> Nat]]

\* Threads that have seen the queue of c empty and are about to post to it.
Posting(c) ==
    (IF pc[c] = "post" THEN 1 ELSE 0) + (IF c = "dec" /\ pc["ren"] = "wakePost" THEN 1 ELSE 0)

ExchangeWith(c) == Exchange(AwaitedOf(c), mq[c], Posting(c), pc[c], owed[c], replies[c])

PlayInv == PlayerType /\ LoopType /\ \A c \in Comp : ExchangeWith(c)

\* The command at the head of the list has done its work.
Handled ==
    /\ waiting
    /\ NoCommand(mq[Head(player.todo).to]) /\ pc[Head(player.todo).to] # "init"

\* A message to a component is a command, which the player waits for.
LEMMA HeadStep ==
    ASSUME PlayerType, player.todo # <<>>
    PROVE  /\ Head(player.todo) \in Step /\ Tail(player.todo) \in Seq(Step)
           /\ Head(player.todo).to \in Comp => Head(player.todo).what \in Command
           /\ Head(player.todo).to \notin Comp => ~waiting
<1>1. Head(player.todo) \in Step /\ Tail(player.todo) \in Seq(Step)
  BY DEF PlayerType
<1> QED BY <1>1 DEF Step, Comp, PlayerType

LEMMA AwaitedType ==
    ASSUME PlayerType, NEW c \in Comp
    PROVE  /\ AwaitedOf(c) \in Command \cup {"none"}
           /\ AwaitedOf(c) # "none" =>
                  waiting /\ player.todo # <<>> /\ Head(player.todo) = Send(c, AwaitedOf(c))
<1>1. CASE waiting /\ Head(player.todo).to = c
  <2>1. Head(player.todo) \in Step /\ Head(player.todo).what \in Command /\ player.todo # <<>>
    BY <1>1, HeadStep DEF PlayerType
  <2>2. Head(player.todo) = [to |-> c, what |-> Head(player.todo).what]
    BY <1>1, <2>1 DEF Step, Comp
  <2>3. AwaitedOf(c) = Head(player.todo).what
    BY <1>1 DEF AwaitedOf
  <2> QED BY <1>1, <2>1, <2>2, <2>3 DEF Send
<1> QED BY <1>1 DEF AwaitedOf

LEMMA PostingType ==
    ASSUME LoopType, NEW c \in Comp
    PROVE  /\ Posting(c) \in Nat
           /\ pc[c] = "check" /\ c = "dec" => Posting(c) \in 0 .. 1
           /\ pc[c] # "post" /\ c = "ren" => Posting(c) = 0
           /\ pc[c] = "post" => Posting(c) > 0
           /\ pc["ren"] = "wakePost" => Posting("dec") > 0
BY DEF Posting, Comp

\* The properties of the loop that follow from the exchange.
LEMMA OneReplyAwaited == ASSUME PlayInv PROVE NoStrayReply
<1> SUFFICES ASSUME NEW c \in Comp, NEW m \in Command, replies[c][m] > 0
             PROVE  replies[c][m] = 1 /\ waiting /\ Head(player.todo) = Send(c, m)
  BY DEF NoStrayReply
<1>1. PlayerType /\ ExchangeWith(c)
  BY DEF PlayInv
<1>2. ~NoReply(replies[c])
  BY DEF NoReply
<1>3. AwaitedOf(c) # "none" /\ OneReply(replies[c], AwaitedOf(c))
  BY <1>1, <1>2 DEF ExchangeWith, Exchange, AtRest, Asked, Busy, Answered
<1>4. AwaitedOf(c) = m /\ replies[c][m] = 1
  BY <1>3 DEF OneReply
<1> QED BY <1>1, <1>3, <1>4, AwaitedType

LEMMA RoomForPosts ==
    ASSUME PlayInv
    PROVE  RoomToPost /\ (pc["ren"] = "wakePost" => Len(mq["dec"]) < Capacity)
<1>1. ASSUME NEW c \in Comp, Posting(c) > 0 \/ AwaitedOf(c) = "none"
      PROVE  Len(mq[c]) < Capacity
  <2>1. /\ AwaitedOf(c) \in Command \cup {"none"} /\ mq[c] \in Seq(Message) /\ Posting(c) \in Nat
        /\ Exchange(AwaitedOf(c), mq[c], Posting(c), pc[c], owed[c], replies[c])
    BY AwaitedType, PostingType DEF LoopType, ExchangeWith, PlayInv
  <2> QED BY <1>1, <2>1, RoomLeft
<1>2. \A c \in Comp : pc[c] = "post" => Posting(c) > 0
  BY PostingType DEF PlayInv
<1>3. pc["ren"] = "wakePost" => Posting("dec") > 0
  BY PostingType DEF Comp, PlayInv
<1>4. ~waiting => \A c \in Comp : AwaitedOf(c) = "none"
  BY DEF AwaitedOf
<1> QED BY <1>1, <1>2, <1>3, <1>4 DEF RoomToPost, Comp

LEMMA FirstExchange == PlayerInit => PlayInv
<1> SUFFICES ASSUME PlayerInit PROVE PlayInv
  OBVIOUS
<1>1. PlayerType
  <2>1. <<>> \in Seq(Step)
    OBVIOUS
  <2> QED BY <2>1 DEF PlayerInit, PlayerType, Status
<1>2. LoopType
  BY DEF PlayerInit, LoopType, Comp, Message
<1>3. ASSUME NEW c \in Comp PROVE ExchangeWith(c)
  <2>1. AwaitedOf(c) = "none" /\ Posting(c) = 0 /\ mq[c] = <<>> /\ owed[c] = "none"
        /\ NoReply(replies[c]) /\ pc[c] = "get"
    BY <1>3 DEF PlayerInit, AwaitedOf, Posting, Comp, NoReply
  <2>2. Quiet(<<>>, 0)
    BY DEF Quiet, NoCommand
  <2> QED BY <2>1, <2>2 DEF ExchangeWith, Exchange, AtRest
<1> QED BY <1>1, <1>2, <1>3 DEF PlayInv

-----------------------------------------------------------------------------
(* What a step of a thread is to the exchange.                             *)

\* The handler of a command replies, or goes on and owes the reply, or begins
\* something and replies later.
Replied(c, m, at) ==
    /\ Handle(c, m) /\ Reply(c, m) /\ GoTo(c, at)
    /\ at \in {"get", "check", "gone"} /\ UNCHANGED owed
Owes(c, m) == Handle(c, m) /\ ContinueThenReply(c, m)
Begins(c, m) == Handle(c, m) /\ GoTo(c, "init") /\ UNCHANGED <<owed, replies>>
Completes(c, m) == pc[c] = "init" /\ UNCHANGED mq /\ (JustReply(c, m) \/ ContinueThenReply(c, m))

Took(c, at) ==
    /\ Handle(c, "continue") /\ GoTo(c, at)
    /\ at \notin {"post", "wakePost", "init"} /\ UNCHANGED <<owed, replies>>

Works(c, at) ==
    /\ pc[c] \notin {"check", "post", "wakePost", "init"} /\ at \notin {"post", "init"} /\ GoTo(c, at)
    /\ at = "wakePost" => c = "ren" /\ mq["dec"] = <<>>
    /\ UNCHANGED <<mq, owed, replies>>

Wakes(c) ==
    /\ c = "ren" /\ pc["ren"] = "wakePost"
    /\ PostMessage("dec", "continue") /\ GoTo("ren", "check") /\ UNCHANGED <<owed, replies>>

\* A step of the thread that has to do with no command.
OtherStep(c) ==
    (\E at : Took(c, at) \/ Works(c, at)) \/ Continues(c) \/ Wakes(c)

-----------------------------------------------------------------------------
(* The exchange goes on, step by step.                                     *)

\* What a step does not touch stays.
LEMMA Untouched ==
    ASSUME LoopType, NEW c \in Comp, ExchangeWith(c), AwaitedOf(c)' = AwaitedOf(c),
           mq'[c] = mq[c], pc'[c] = pc[c], owed'[c] = owed[c], replies'[c] = replies[c],
           c = "dec" => (pc["ren"] = "wakePost" <=> pc'["ren"] = "wakePost")
    PROVE  ExchangeWith(c)'
<1>1. Posting(c)' = Posting(c)
  BY DEF Posting
<1> QED BY <1>1 DEF ExchangeWith

LEMMA SamePlayer ==
    ASSUME UNCHANGED playerVars
    PROVE  (PlayerType => PlayerType') /\ \A c : AwaitedOf(c)' = AwaitedOf(c)
BY DEF playerVars, AwaitedOf, PlayerType

\* A component takes a message that it awaits.
LEMMA Awaits ==
    ASSUME PlayInv, NEW c \in Comp, NEW m \in Command, Handle(c, m)
    PROVE  /\ mq[c] \in Seq(Message) /\ Tail(mq[c]) \in Seq(Message) /\ mq[c] # <<>>
           /\ AwaitedOf(c) = m /\ waiting /\ player.todo # <<>> /\ Head(player.todo) = Send(c, m)
           /\ Quiet(Tail(mq[c]), Posting(c)) /\ owed[c] = "none" /\ NoReply(replies[c])
           /\ ~NoCommand(mq[c])
<1>1. mq[c] \in Seq(Message) /\ mq[c] # <<>> /\ Head(mq[c]) = m
  BY DEF LoopType, Handle, PlayInv
<1>2. AwaitedOf(c) = m /\ Quiet(Tail(mq[c]), Posting(c)) /\ owed[c] = "none" /\ NoReply(replies[c])
  <2>1. /\ AwaitedOf(c) \in Command \cup {"none"} /\ Posting(c) \in Nat
        /\ Exchange(AwaitedOf(c), mq[c], Posting(c), pc[c], owed[c], replies[c])
    BY AwaitedType, PostingType DEF ExchangeWith, PlayInv
  <2> DEFINE q == mq[c]  a == AwaitedOf(c)  n == Posting(c)
  <2>2. /\ q \in Seq(Message) /\ q # <<>> /\ Head(q) \in Command /\ a \in Command \cup {"none"}
        /\ n \in Nat /\ Exchange(a, q, n, pc[c], owed[c], replies[c])
    BY <1>1, <2>1
  <2> HIDE DEF q, a, n
  <2>3. a = Head(q) /\ Quiet(Tail(q), n) /\ owed[c] = "none" /\ NoReply(replies[c])
    BY <2>2, Taken
  <2> QED BY <1>1, <2>3 DEF q, a, n
<1>3. waiting /\ player.todo # <<>> /\ Head(player.todo) = Send(c, m)
  BY <1>2, AwaitedType DEF PlayInv, Command
<1>4. m # "continue"
  BY DEF Command
<1> QED BY <1>1, <1>2, <1>3, <1>4, TakeCommand

LEMMA TakenFrom ==
    ASSUME LoopType, NEW c \in Comp, NEW m, Handle(c, m)
    PROVE  /\ mq' \in [Comp -> Seq(Message)] /\ mq'[c] = Tail(mq[c])
           /\ \A d \in Comp \ {c} : mq'[d] = mq[d]
<1>1. mq[c] \in Seq(Message) /\ mq[c] # <<>> /\ mq' = [mq EXCEPT ![c] = Tail(@)]
  BY DEF Handle, LoopType
<1>2. Tail(mq[c]) \in Seq(Message)
  BY <1>1
<1> QED BY <1>1, <1>2 DEF LoopType

LEMMA RepliesType ==
    ASSUME LoopType, NEW c \in Comp, NEW m \in Command, Reply(c, m)
    PROVE  /\ replies' \in [Comp -> [Command -> Nat]]
           /\ replies'[c] = [replies[c] EXCEPT ![m] = @ + 1]
           /\ \A d \in Comp \ {c} : replies'[d] = replies[d]
<1>1. replies[c] \in [Command -> Nat] /\ replies' = [replies EXCEPT ![c] = [replies[c] EXCEPT ![m] = @ + 1]]
  BY DEF Reply, LoopType
<1>2. [replies[c] EXCEPT ![m] = @ + 1] \in [Command -> Nat]
  BY <1>1
<1> QED BY <1>1, <1>2 DEF LoopType

LEMMA PlaceType ==
    ASSUME LoopType, NEW c \in Comp, NEW at, GoTo(c, at)
    PROVE  pc' = [d \in Comp |-> pc'[d]] /\ pc'[c] = at /\ \A d \in Comp \ {c} : pc'[d] = pc[d]
BY DEF LoopType, GoTo

\* The handler of a command.
LEMMA CommandStep ==
    ASSUME PlayInv, NEW c \in Comp, NEW m \in Command, NEW at, UNCHANGED playerVars,
           Replied(c, m, at) \/ Owes(c, m)
    PROVE  /\ PlayInv' /\ ~Handled /\ Handled'
           /\ waiting /\ player.todo # <<>> /\ Head(player.todo) = Send(c, m)
<1>1. Handle(c, m)
  BY DEF Replied, Owes
<1>2. /\ mq' \in [Comp -> Seq(Message)] /\ mq'[c] = Tail(mq[c])
      /\ \A d \in Comp \ {c} : mq'[d] = mq[d]
  BY <1>1, TakenFrom DEF PlayInv
<1>3. /\ owed[c] = "none" /\ NoReply(replies[c]) /\ pc[c] = "get" /\ Quiet(mq'[c], Posting(c))
      /\ AwaitedOf(c)' = m
  BY <1>1, <1>2, Awaits, SamePlayer DEF Handle
<1>4. /\ pc' = [d \in Comp |-> pc'[d]] /\ pc'[c] \in {"get", "check", "gone"}
      /\ \A d \in Comp \ {c} : pc'[d] = pc[d]
  BY PlaceType DEF Replied, Owes, ContinueThenReply, PlayInv
<1>5. Posting(c)' = Posting(c)
  BY <1>3, <1>4 DEF Posting, Comp
<1>6. ExchangeWith(c)' /\ LoopType' /\ \A d \in Comp \ {c} : owed'[d] = owed[d] /\ replies'[d] = replies[d]
  <2>1. CASE Replied(c, m, at)
    <3>1. owed' = owed /\ Reply(c, m)
      BY <2>1 DEF Replied
    <3>2. /\ replies' \in [Comp -> [Command -> Nat]]
          /\ replies'[c] = [replies[c] EXCEPT ![m] = @ + 1]
          /\ \A d \in Comp \ {c} : replies'[d] = replies[d]
      BY <3>1, RepliesType DEF PlayInv
    <3>3. OneReply(replies'[c], m)
      BY <1>3, <3>2 DEF OneReply, NoReply, LoopType, PlayInv
    <3> QED BY <1>2, <1>3, <1>4, <1>5, <3>1, <3>2, <3>3
            DEF ExchangeWith, Exchange, Answered, Command, LoopType, PlayInv
  <2>2. CASE Owes(c, m)
    <3>1. owed' = [owed EXCEPT ![c] = m] /\ replies' = replies /\ pc'[c] = "check"
      BY <2>2, PlaceType DEF Owes, ContinueThenReply, PlayInv
    <3>2. owed'[c] = m /\ owed' \in [Comp -> Command \cup {"none"}]
          /\ \A d \in Comp \ {c} : owed'[d] = owed[d]
      BY <3>1 DEF LoopType, PlayInv
    <3> QED BY <1>2, <1>3, <1>4, <1>5, <3>1, <3>2
            DEF ExchangeWith, Exchange, Busy, Command, LoopType, PlayInv
  <2> QED BY <2>1, <2>2
<1>7. ASSUME NEW d \in Comp \ {c} PROVE ExchangeWith(d)'
  BY <1>2, <1>3, <1>4, <1>6, Untouched, SamePlayer DEF Comp, PlayInv
<1>8. waiting /\ player.todo # <<>> /\ Head(player.todo) = Send(c, m) /\ ~NoCommand(mq[c])
  BY <1>1, Awaits
<1>9. ~Handled /\ Handled'
  BY <1>3, <1>4, <1>8 DEF Handled, Send, playerVars, Quiet
<1> QED BY <1>6, <1>7, <1>8, <1>9, SamePlayer DEF PlayInv

\* The first half of a handler that replies later.
LEMMA BeginStep ==
    ASSUME PlayInv, NEW c \in Comp, NEW m \in Command, UNCHANGED playerVars, Begins(c, m)
    PROVE  /\ PlayInv' /\ ~Handled /\ ~Handled'
           /\ waiting /\ player.todo # <<>> /\ Head(player.todo) = Send(c, m)
<1>1. Handle(c, m) /\ owed' = owed /\ replies' = replies
  BY DEF Begins
<1>2. /\ mq' \in [Comp -> Seq(Message)] /\ mq'[c] = Tail(mq[c])
      /\ \A d \in Comp \ {c} : mq'[d] = mq[d]
  BY <1>1, TakenFrom DEF PlayInv
<1>3. /\ owed[c] = "none" /\ NoReply(replies[c]) /\ pc[c] = "get" /\ Quiet(mq'[c], Posting(c))
      /\ AwaitedOf(c)' = m
  BY <1>1, <1>2, Awaits, SamePlayer DEF Handle
<1>4. pc' = [d \in Comp |-> pc'[d]] /\ pc'[c] = "init" /\ \A d \in Comp \ {c} : pc'[d] = pc[d]
  BY PlaceType DEF Begins, PlayInv
<1>5. Posting(c)' = Posting(c)
  BY <1>3, <1>4 DEF Posting, Comp
<1>6. ExchangeWith(c)' /\ LoopType'
  BY <1>1, <1>2, <1>3, <1>4, <1>5 DEF ExchangeWith, Exchange, Busy, Command, LoopType, PlayInv
<1>7. ASSUME NEW d \in Comp \ {c} PROVE ExchangeWith(d)'
  BY <1>1, <1>2, <1>3, <1>4, Untouched, SamePlayer DEF Comp, PlayInv
<1>8. waiting /\ player.todo # <<>> /\ Head(player.todo) = Send(c, m) /\ ~NoCommand(mq[c])
  BY <1>1, Awaits
<1>9. ~Handled /\ ~Handled'
  BY <1>3, <1>4, <1>8 DEF Handled, Send, playerVars
<1> QED BY <1>6, <1>7, <1>8, <1>9, SamePlayer DEF PlayInv

\* And the second.
LEMMA CompleteStep ==
    ASSUME PlayInv, NEW c \in Comp, NEW m \in Command, UNCHANGED playerVars, Completes(c, m),
           AwaitedOf(c) = m
    PROVE  /\ PlayInv' /\ ~Handled /\ Handled'
           /\ waiting /\ player.todo # <<>> /\ Head(player.todo) = Send(c, m)
<1>1. pc[c] = "init" /\ mq' = mq
  BY DEF Completes
<1>2. owed[c] = "none" /\ NoReply(replies[c]) /\ Quiet(mq[c], Posting(c)) /\ AwaitedOf(c)' = m
  BY <1>1, SamePlayer DEF PlayInv, ExchangeWith, Exchange, Busy
<1>3. pc' = [d \in Comp |-> pc'[d]] /\ pc'[c] \in {"get", "check"} /\ \A d \in Comp \ {c} : pc'[d] = pc[d]
  BY PlaceType DEF Completes, JustReply, ContinueThenReply, PlayInv
<1>4. Posting(c)' = Posting(c)
  BY <1>1, <1>3 DEF Posting, Comp
<1>5. ExchangeWith(c)' /\ LoopType' /\ \A d \in Comp \ {c} : owed'[d] = owed[d] /\ replies'[d] = replies[d]
  <2>1. CASE JustReply(c, m)
    <3>1. owed' = owed /\ Reply(c, m)
      BY <2>1 DEF JustReply
    <3>2. /\ replies' \in [Comp -> [Command -> Nat]]
          /\ replies'[c] = [replies[c] EXCEPT ![m] = @ + 1]
          /\ \A d \in Comp \ {c} : replies'[d] = replies[d]
      BY <3>1, RepliesType DEF PlayInv
    <3>3. OneReply(replies'[c], m)
      BY <1>2, <3>2 DEF OneReply, NoReply, LoopType, PlayInv
    <3> QED BY <1>1, <1>2, <1>3, <1>4, <3>1, <3>2, <3>3
            DEF ExchangeWith, Exchange, Answered, Command, LoopType, PlayInv
  <2>2. CASE ContinueThenReply(c, m)
    <3>1. owed' = [owed EXCEPT ![c] = m] /\ replies' = replies /\ pc'[c] = "check"
      BY <2>2, PlaceType DEF ContinueThenReply, PlayInv
    <3>2. owed'[c] = m /\ owed' \in [Comp -> Command \cup {"none"}]
          /\ \A d \in Comp \ {c} : owed'[d] = owed[d]
      BY <3>1 DEF LoopType, PlayInv
    <3> QED BY <1>1, <1>2, <1>3, <1>4, <3>1, <3>2
            DEF ExchangeWith, Exchange, Busy, Command, LoopType, PlayInv
  <2> QED BY <2>1, <2>2 DEF Completes
<1>6. ASSUME NEW d \in Comp \ {c} PROVE ExchangeWith(d)'
  BY <1>1, <1>3, <1>5, Untouched, SamePlayer DEF Comp, PlayInv
<1>7. waiting /\ player.todo # <<>> /\ Head(player.todo) = Send(c, m)
  BY AwaitedType DEF PlayInv, Command
<1>8. ~Handled /\ Handled'
  BY <1>1, <1>2, <1>3, <1>7 DEF Handled, Send, playerVars, Quiet
<1> QED BY <1>5, <1>6, <1>7, <1>8, SamePlayer DEF PlayInv

-----------------------------------------------------------------------------
(* The steps of the threads that have to do with no command.               *)

Kept(q, q2) ==
    /\ NoCommand(q) => NoCommand(q2)
    /\ \A m \in Command : OneCommand(q, m) => OneCommand(q2, m)

\* The exchange goes on as it was.
GoesOn ==
    /\ PlayInv'
    /\ \A d \in Comp : Kept(mq[d], mq'[d]) /\ (pc'[d] = "init" <=> pc[d] = "init")

LEMMA ContinueStep ==
    ASSUME PlayInv, NEW c \in Comp, NEW at, UNCHANGED playerVars, Took(c, at)
    PROVE  GoesOn
<1>1. /\ mq[c] \in Seq(Message) /\ mq[c] # <<>> /\ Head(mq[c]) = "continue" /\ pc[c] = "get"
      /\ at \notin {"post", "wakePost", "init"} /\ owed' = owed /\ replies' = replies
  BY DEF LoopType, Took, Handle, PlayInv
<1>2. /\ mq' \in [Comp -> Seq(Message)] /\ mq'[c] = Tail(mq[c])
      /\ \A d \in Comp \ {c} : mq'[d] = mq[d]
  BY TakenFrom DEF Took, PlayInv
<1>3. pc' = [d \in Comp |-> pc'[d]] /\ pc'[c] = at /\ \A d \in Comp \ {c} : pc'[d] = pc[d]
  BY PlaceType DEF Took, PlayInv
<1>4. Posting(c)' = Posting(c)
  BY <1>1, <1>3 DEF Posting, Comp
<1>5. ExchangeWith(c)'
  <2> DEFINE q == mq[c]  a == AwaitedOf(c)  n == Posting(c)
  <2>1. /\ q \in Seq(Message) /\ q # <<>> /\ Head(q) = "continue" /\ a \in Command \cup {"none"}
        /\ n \in Nat /\ Exchange(a, q, n, "get", owed[c], replies[c])
    BY <1>1, AwaitedType, PostingType DEF ExchangeWith, PlayInv
  <2> HIDE DEF q, a, n
  <2>2. Exchange(a, Tail(q), n, at, owed[c], replies[c])
    BY <1>1, <2>1, ContinueTaken
  <2>3. a' = a
    BY SamePlayer DEF a
  <2> QED BY <1>1, <1>2, <1>3, <1>4, <2>2, <2>3 DEF q, a, n, ExchangeWith
<1>6. ASSUME NEW d \in Comp \ {c} PROVE ExchangeWith(d)'
  BY <1>1, <1>2, <1>3, Untouched, SamePlayer DEF Comp, PlayInv
<1>7. Kept(mq[c], mq'[c])
  BY <1>1, <1>2, TakeCommand DEF Kept
<1>8. LoopType'
  BY <1>1, <1>2, <1>3 DEF LoopType, PlayInv
<1>9. \A d \in Comp : Kept(mq[d], mq'[d]) /\ (pc'[d] = "init" <=> pc[d] = "init")
  BY <1>1, <1>2, <1>3, <1>7 DEF Kept
<1> QED BY <1>5, <1>6, <1>8, <1>9, SamePlayer DEF GoesOn, PlayInv

LEMMA WorkStep ==
    ASSUME PlayInv, NEW c \in Comp, NEW at, UNCHANGED playerVars, Works(c, at)
    PROVE  GoesOn
<1>1. /\ at \notin {"post", "init"} /\ pc[c] \notin {"check", "post", "wakePost", "init"}
      /\ mq' = mq /\ owed' = owed /\ replies' = replies
      /\ at = "wakePost" => c = "ren" /\ mq["dec"] = <<>>
  BY DEF Works
<1>2. pc' = [d \in Comp |-> pc'[d]] /\ pc'[c] = at /\ \A d \in Comp \ {c} : pc'[d] = pc[d]
  BY PlaceType DEF Works, PlayInv
<1>3. Posting(c)' = Posting(c)
  BY <1>1, <1>2 DEF Posting, Comp
<1>4. \A d \in Comp : AwaitedOf(d)' = AwaitedOf(d) /\ AwaitedOf(d) \in Command \cup {"none"}
  BY AwaitedType, SamePlayer DEF PlayInv
<1>5. ExchangeWith(c)'
  <2>1. Exchange(AwaitedOf(c), mq[c], Posting(c), pc[c], owed[c], replies[c])
    BY DEF ExchangeWith, PlayInv
  <2>2. Exchange(AwaitedOf(c), mq[c], Posting(c), at, owed[c], replies[c])
    BY <1>1, <1>4, <2>1, Moved
  <2> QED BY <1>1, <1>2, <1>3, <1>4, <2>2 DEF ExchangeWith
<1>6. ASSUME NEW d \in Comp \ {c} PROVE ExchangeWith(d)'
  <2>1. CASE at # "wakePost" \/ d = "ren"
    BY <1>1, <1>2, <2>1, Untouched, SamePlayer DEF Comp, PlayInv
  <2>2. CASE at = "wakePost" /\ d = "dec"
    <3>1. mq[d] = <<>> /\ pc["ren"] # "wakePost" /\ pc'["ren"] = "wakePost" /\ pc'[d] = pc[d]
      BY <1>1, <1>2, <2>2 DEF Comp
    <3>2. Posting(d)' = Posting(d) + 1 /\ Posting(d) \in 0 .. 1
      BY <2>2, <3>1 DEF Posting
    <3>3. Quiet(<<>>, Posting(d)') /\ \A k : ~OneCommand(<<>>, k)
      BY <3>2 DEF Quiet, NoCommand, OneCommand
    <3>4. ExchangeWith(d)
      BY DEF PlayInv
    <3> QED BY <1>1, <1>4, <3>1, <3>3, <3>4 DEF ExchangeWith, Exchange, AtRest, Asked, Busy, Answered
  <2> QED BY <2>1, <2>2 DEF Comp
<1>7. LoopType'
  BY <1>1, <1>2 DEF LoopType, PlayInv
<1>8. \A d \in Comp : Kept(mq[d], mq'[d]) /\ (pc'[d] = "init" <=> pc[d] = "init")
  BY <1>1, <1>2 DEF Kept
<1> QED BY <1>5, <1>6, <1>7, <1>8, SamePlayer DEF GoesOn, PlayInv

\* The end of a handler, whatever reply it owes.
LEMMA HandlerEndsType ==
    ASSUME LoopType, NEW c \in Comp, HandlerEnds(c)
    PROVE  /\ pc' = [d \in Comp |-> pc'[d]] /\ pc'[c] = "get" /\ owed'[c] = "none"
           /\ owed' \in [Comp -> Command \cup {"none"}] /\ replies' \in [Comp -> [Command -> Nat]]
           /\ replies'[c] = IF owed[c] = "none" THEN replies[c]
                            ELSE [replies[c] EXCEPT ![owed[c]] = @ + 1]
           /\ \A d \in Comp \ {c} : pc'[d] = pc[d] /\ owed'[d] = owed[d] /\ replies'[d] = replies[d]
<1>1. GoTo(c, "get") /\ owed' = [owed EXCEPT ![c] = "none"] /\ owed \in [Comp -> Command \cup {"none"}]
  BY DEF HandlerEnds, LoopType
<1>2. CASE owed[c] = "none"
  <2>1. replies' = replies
    BY <1>2 DEF HandlerEnds
  <2> QED BY <1>1, <1>2, <2>1, PlaceType DEF LoopType
<1>3. CASE owed[c] # "none"
  <2>1. Reply(c, owed[c]) /\ owed[c] \in Command
    BY <1>1, <1>3 DEF HandlerEnds
  <2> QED BY <1>1, <1>3, <2>1, RepliesType, PlaceType
<1> QED BY <1>2, <1>3

LEMMA PostedTo ==
    ASSUME LoopType, NEW c \in Comp, PostMessage(c, "continue")
    PROVE  /\ mq[c] \in Seq(Message) /\ mq' \in [Comp -> Seq(Message)]
           /\ mq'[c] = Append(mq[c], "continue")
           /\ \A d \in Comp \ {c} : mq'[d] = mq[d]
<1>1. mq[c] \in Seq(Message) /\ mq' = [mq EXCEPT ![c] = Append(@, "continue")]
  BY DEF PostMessage, LoopType
<1>2. Append(mq[c], "continue") \in Seq(Message)
  BY <1>1, AppendContinue
<1> QED BY <1>1, <1>2 DEF LoopType

LEMMA LoopStep ==
    ASSUME PlayInv, NEW c \in Comp, UNCHANGED playerVars, Continues(c)
    PROVE  GoesOn
<1>1. /\ mq[c] \in Seq(Message) /\ owed[c] \in Command \cup {"none"}
      /\ replies[c] \in [Command -> Nat] /\ AwaitedOf(c) \in Command \cup {"none"}
      /\ AwaitedOf(c)' = AwaitedOf(c) /\ Posting(c) \in Nat
      /\ Exchange(AwaitedOf(c), mq[c], Posting(c), pc[c], owed[c], replies[c])
  BY AwaitedType, PostingType, SamePlayer DEF LoopType, PlayInv, ExchangeWith
<1>2. CASE Looks(c) /\ mq[c] = <<>>
  <2>1. pc[c] = "check" /\ mq' = mq /\ owed' = owed /\ replies' = replies
    BY <1>2 DEF Looks
  <2>2. pc' = [d \in Comp |-> pc'[d]] /\ pc'[c] = "post" /\ \A d \in Comp \ {c} : pc'[d] = pc[d]
    BY <1>2, PlaceType DEF Looks, PlayInv
  <2>3. Posting(c)' = Posting(c) + 1 /\ Posting(c) \in 0 .. 1
    BY <2>1, <2>2 DEF Posting, Comp
  <2>4. Exchange(AwaitedOf(c), <<>>, Posting(c) + 1, "post", owed[c], replies[c])
    BY <1>1, <1>2, <2>1, <2>3, FoundEmpty
  <2>5. ExchangeWith(c)'
    BY <1>1, <1>2, <2>1, <2>2, <2>3, <2>4 DEF ExchangeWith
  <2>6. ASSUME NEW d \in Comp \ {c} PROVE ExchangeWith(d)'
    BY <2>1, <2>2, Untouched, SamePlayer DEF Comp, PlayInv
  <2>7. LoopType'
    BY <2>1, <2>2 DEF LoopType, PlayInv
  <2>8. \A d \in Comp : Kept(mq[d], mq'[d]) /\ (pc'[d] = "init" <=> pc[d] = "init")
    BY <2>1, <2>2 DEF Kept
  <2> QED BY <2>5, <2>6, <2>7, <2>8, SamePlayer DEF GoesOn, PlayInv
<1> DEFINE r2 == IF owed[c] = "none" THEN replies[c] ELSE [replies[c] EXCEPT ![owed[c]] = @ + 1]
<1>3. ASSUME HandlerEnds(c), pc[c] \in {"check", "post"}, mq' \in [Comp -> Seq(Message)],
             Exchange(AwaitedOf(c), mq'[c], Posting(c)', pc[c], owed[c], replies[c]),
             \A d \in Comp \ {c} : mq'[d] = mq[d],
             Kept(mq[c], mq'[c])
      PROVE  GoesOn
  <2>1. /\ pc' = [d \in Comp |-> pc'[d]] /\ pc'[c] = "get" /\ owed'[c] = "none" /\ replies'[c] = r2
        /\ owed' \in [Comp -> Command \cup {"none"}] /\ replies' \in [Comp -> [Command -> Nat]]
        /\ \A d \in Comp \ {c} : pc'[d] = pc[d] /\ owed'[d] = owed[d] /\ replies'[d] = replies[d]
    BY <1>3, HandlerEndsType DEF PlayInv
  <2>2. Exchange(AwaitedOf(c), mq'[c], Posting(c)', "get", "none", r2)
    BY <1>1, <1>3, Ended
  <2>3. ExchangeWith(c)'
    BY <1>1, <2>1, <2>2 DEF ExchangeWith
  <2>4. ASSUME NEW d \in Comp \ {c} PROVE ExchangeWith(d)'
    BY <1>3, <2>1, Untouched, SamePlayer DEF Comp, PlayInv
  <2>5. LoopType'
    BY <1>3, <2>1 DEF LoopType, PlayInv
  <2>6. \A d \in Comp : Kept(mq[d], mq'[d]) /\ (pc'[d] = "init" <=> pc[d] = "init")
    BY <1>3, <2>1 DEF Kept
  <2> QED BY <2>3, <2>4, <2>5, <2>6, SamePlayer DEF GoesOn, PlayInv
<1>4. CASE Looks(c) /\ mq[c] # <<>>
  <2>1. pc[c] = "check" /\ mq' = mq /\ HandlerEnds(c)
    BY <1>4 DEF Looks
  <2>2. Posting(c)' = Posting(c)
    BY <2>1, HandlerEndsType DEF Posting, Comp, PlayInv
  <2>3. mq \in [Comp -> Seq(Message)] /\ Kept(mq[c], mq'[c])
    BY <2>1 DEF LoopType, PlayInv, Kept
  <2> QED BY <1>1, <1>3, <2>1, <2>2, <2>3
<1>5. CASE Posts(c)
  <2>1. pc[c] = "post" /\ HandlerEnds(c) /\ PostMessage(c, "continue")
    BY <1>5 DEF Posts
  <2>2. /\ mq' \in [Comp -> Seq(Message)] /\ mq'[c] = Append(mq[c], "continue")
        /\ \A d \in Comp \ {c} : mq'[d] = mq[d]
    BY <2>1, PostedTo DEF PlayInv
  <2>3. Posting(c)' = Posting(c) - 1 /\ Posting(c) \in Nat \ {0}
    BY <2>1, HandlerEndsType DEF Posting, Comp, PlayInv
  <2>4. Exchange(AwaitedOf(c), mq'[c], Posting(c)', pc[c], owed[c], replies[c])
    <3> DEFINE q == mq[c]  a == AwaitedOf(c)  n == Posting(c)
    <3>1. /\ q \in Seq(Message) /\ a \in Command \cup {"none"} /\ n \in Nat \ {0}
          /\ Exchange(a, q, n, pc[c], owed[c], replies[c])
      BY <1>1, <2>3
    <3> HIDE DEF q, a, n
    <3>2. Exchange(a, Append(q, "continue"), n - 1, pc[c], owed[c], replies[c])
      BY <3>1, Continued
    <3> QED BY <2>2, <2>3, <3>2 DEF q, a, n
  <2>5. Kept(mq[c], mq'[c])
    BY <1>1, <2>2, AppendContinue DEF Kept
  <2> QED BY <1>3, <2>1, <2>2, <2>4, <2>5
<1> QED BY <1>2, <1>4, <1>5 DEF Continues

LEMMA WakeStep ==
    ASSUME PlayInv, UNCHANGED playerVars, Wakes("ren")
    PROVE  GoesOn
<1>1. /\ mq["dec"] \in Seq(Message) /\ mq' \in [Comp -> Seq(Message)]
      /\ mq'["dec"] = Append(mq["dec"], "continue") /\ mq'["ren"] = mq["ren"]
  BY PostedTo DEF Wakes, Comp, PlayInv
<1>2. /\ pc' = [d \in Comp |-> pc'[d]] /\ pc["ren"] = "wakePost" /\ pc'["ren"] = "check"
      /\ pc'["dec"] = pc["dec"] /\ owed' = owed /\ replies' = replies
  BY PlaceType DEF Wakes, Comp, PlayInv
<1>3. Posting("dec")' = Posting("dec") - 1 /\ Posting("dec") \in Nat \ {0}
      /\ Posting("ren")' = Posting("ren")
  BY <1>2 DEF Posting
<1>4. \A d \in Comp : AwaitedOf(d)' = AwaitedOf(d) /\ AwaitedOf(d) \in Command \cup {"none"}
  BY AwaitedType, SamePlayer DEF PlayInv
<1>5. ExchangeWith("dec")'
  <2>1. Exchange(AwaitedOf("dec"), mq["dec"], Posting("dec"), pc["dec"], owed["dec"], replies["dec"])
    BY DEF ExchangeWith, PlayInv, Comp
  <2>2. Exchange(AwaitedOf("dec"), Append(mq["dec"], "continue"), Posting("dec") - 1, pc["dec"],
                 owed["dec"], replies["dec"])
    BY <1>1, <1>3, <1>4, <2>1, Continued DEF Comp
  <2> QED BY <1>1, <1>2, <1>3, <1>4, <2>2 DEF ExchangeWith, Comp
<1>6. ExchangeWith("ren")'
  <2>1. Exchange(AwaitedOf("ren"), mq["ren"], Posting("ren"), pc["ren"], owed["ren"], replies["ren"])
    BY DEF ExchangeWith, PlayInv, Comp
  <2>2. Exchange(AwaitedOf("ren"), mq["ren"], Posting("ren"), "check", owed["ren"], replies["ren"])
    BY <1>2, <1>4, <2>1, Moved DEF Comp
  <2> QED BY <1>1, <1>2, <1>3, <1>4, <2>2 DEF ExchangeWith, Comp
<1>7. LoopType'
  BY <1>1, <1>2 DEF LoopType, PlayInv
<1>8. Kept(mq["dec"], mq'["dec"])
  BY <1>1, AppendContinue DEF Kept
<1>9. \A d \in Comp : Kept(mq[d], mq'[d]) /\ (pc'[d] = "init" <=> pc[d] = "init")
  BY <1>1, <1>2, <1>8 DEF Kept, Comp
<1> QED BY <1>5, <1>6, <1>7, <1>9, SamePlayer DEF GoesOn, PlayInv, Comp

\* Such a step tells nothing of the command that is awaited.
LEMMA OtherStepGoesOn ==
    ASSUME PlayInv, NEW c \in Comp, UNCHANGED playerVars, OtherStep(c)
    PROVE  PlayInv' /\ (Handled' <=> Handled)
<1>1. GoesOn
  BY ContinueStep, WorkStep, LoopStep, WakeStep DEF OtherStep, Wakes
<1> DEFINE h == Head(player.todo).to
<1>2. UNCHANGED <<player, waiting>> /\ (waiting => h \in Comp)
  BY DEF playerVars, PlayInv, PlayerType
<1>3. ASSUME waiting PROVE NoCommand(mq[h]) <=> NoCommand(mq'[h])
  <2>1. h \in Comp /\ AwaitedOf(h) \in Command /\ mq[h] \in Seq(Message)
        /\ Exchange(AwaitedOf(h), mq[h], Posting(h), pc[h], owed[h], replies[h])
    <3>1. h \in Comp /\ AwaitedOf(h) = Head(player.todo).what
      BY <1>2, <1>3 DEF AwaitedOf
    <3>2. Head(player.todo).what \in Command
      BY <1>3, <3>1, HeadStep DEF PlayInv, PlayerType
    <3> QED BY <3>1, <3>2 DEF PlayInv, ExchangeWith, LoopType
  <2>2. NoCommand(mq[h]) \/ OneCommand(mq[h], AwaitedOf(h))
    BY <2>1 DEF Exchange, Asked, Busy, Answered, Quiet, AtRest
  <2>3. Kept(mq[h], mq'[h])
    BY <1>1, <2>1 DEF GoesOn
  <2>4. OneCommand(mq[h], AwaitedOf(h)) => ~NoCommand(mq'[h])
    BY <2>1, <2>3, OneIsNotNone DEF Kept
  <2>5. OneCommand(mq[h], AwaitedOf(h)) => ~NoCommand(mq[h])
    BY <2>1, OneIsNotNone
  <2> QED BY <2>2, <2>3, <2>4, <2>5 DEF Kept
<1>4. waiting => (pc'[h] = "init" <=> pc[h] = "init")
  BY <1>1, <1>2 DEF GoesOn
<1> QED BY <1>1, <1>2, <1>3, <1>4 DEF Handled, GoesOn

-----------------------------------------------------------------------------
(* The lists of the commands, and where the player is in one.              *)

PlanName == {"start", "stop", "pause", "seek", "rewind", "clear"}

Plan(s) ==
    CASE s = "start" -> StartComps \o <<Own("started")>>
      [] s = "stop" -> StopComps \o <<Own("stopped")>>
      [] s = "pause" -> PauseComps \o <<Own("paused")>>
      [] s = "seek" -> PauseComps \o ResetComps \o RestartComps
      [] s = "rewind" -> ResetComps
      [] s = "clear" -> <<Send("ren", "quit"), Send("dec", "quit"), Own("cleared")>>

\* The player's eStatus before step k of the list; the last step sets it.
StatusIn(s, k) ==
    CASE s = "start" -> IF k > 3 THEN {"started"} ELSE {"stopped", "paused"}
      [] s = "stop" -> IF k > 3 THEN {"stopped"} ELSE {"started", "paused"}
      [] s = "pause" -> IF k > 3 THEN {"paused"} ELSE {"started"}
      [] s = "seek" -> {"started"}
      [] s = "rewind" -> {"paused"}
      [] s = "clear" -> IF k > 3 THEN {"cleared"} ELSE {"stopped"}

\* Step k is the next one, or is under way.
Doing(s, k) ==
    /\ s \in PlanName /\ k \in 1 .. Len(Plan(s)) + 1
    /\ player.todo = SubSeq(Plan(s), k, Len(Plan(s)))
    /\ player.status \in StatusIn(s, k)

\* The step that is still to be carried out.
Turn(k) == IF Handled THEN k + 1 ELSE k

LEMMA Lists ==
    ASSUME NEW S, NEW x1 \in S, NEW x2 \in S, NEW x3 \in S, NEW x4 \in S, NEW x5 \in S,
           NEW x6 \in S, NEW x7 \in S
    PROVE  /\ <<x1, x2, x3>> \in Seq(S) /\ Len(<<x1, x2, x3>>) = 3
           /\ <<x1, x2>> \o <<x3>> \in Seq(S) /\ Len(<<x1, x2>> \o <<x3>>) = 3
           /\ <<x1, x2>> \o <<x3, x4, x5>> \o <<x6, x7>> \in Seq(S)
           /\ Len(<<x1, x2>> \o <<x3, x4, x5>> \o <<x6, x7>>) = 7
OBVIOUS

LEMMA PlanType ==
    ASSUME NEW s \in PlanName
    PROVE  Plan(s) \in Seq(Step) /\ Len(Plan(s)) = IF s = "seek" THEN 7 ELSE 3
<1>1. ASSUME NEW c \in Comp, NEW m \in Command PROVE Send(c, m) \in Step
  BY DEF Send, Step
<1>2. ASSUME NEW what \in OwnSteps PROVE Own(what) \in Step
  BY DEF Own, Step
<1>3. \A what \in {"started", "paused", "stopped", "rewound", "cleared"} : Own(what) \in Step
  BY <1>2 DEF OwnSteps, Status
<1>4. CASE s = "start"
  BY <1>1, <1>3, <1>4, Lists DEF Plan, StartComps, Comp, Command
<1>5. CASE s = "stop"
  BY <1>1, <1>3, <1>5, Lists DEF Plan, StopComps, Comp, Command
<1>6. CASE s = "pause"
  BY <1>1, <1>3, <1>6, Lists DEF Plan, PauseComps, Comp, Command
<1>7. CASE s = "seek"
  BY <1>1, <1>3, <1>7, Lists DEF Plan, PauseComps, ResetComps, RestartComps, Comp, Command
<1>8. CASE s = "rewind"
  BY <1>1, <1>3, <1>8, Lists DEF Plan, ResetComps, Comp, Command
<1>9. CASE s = "clear"
  BY <1>1, <1>3, <1>9, Lists DEF Plan, Comp, Command
<1> QED BY <1>4, <1>5, <1>6, <1>7, <1>8, <1>9 DEF PlanName

\* The steps of each list.
LEMMA PlanSteps ==
    /\ Plan("start")[1] = Send("dec", "start") /\ Plan("start")[2] = Send("ren", "start")
    /\ Plan("start")[3] = Own("started")
    /\ Plan("stop")[1] = Send("ren", "stop") /\ Plan("stop")[2] = Send("dec", "stop")
    /\ Plan("stop")[3] = Own("stopped")
    /\ Plan("pause")[1] = Send("ren", "pause") /\ Plan("pause")[2] = Send("dec", "pause")
    /\ Plan("pause")[3] = Own("paused")
    /\ Plan("seek")[1] = Send("ren", "pause") /\ Plan("seek")[2] = Send("dec", "pause")
    /\ Plan("seek")[3] = Send("dec", "reset") /\ Plan("seek")[4] = Send("ren", "reset")
    /\ Plan("seek")[5] = Own("rewound")
    /\ Plan("seek")[6] = Send("ren", "start") /\ Plan("seek")[7] = Send("dec", "start")
    /\ Plan("rewind")[1] = Send("dec", "reset") /\ Plan("rewind")[2] = Send("ren", "reset")
    /\ Plan("rewind")[3] = Own("rewound")
    /\ Plan("clear")[1] = Send("ren", "quit") /\ Plan("clear")[2] = Send("dec", "quit")
    /\ Plan("clear")[3] = Own("cleared")
<1>1. /\ Plan("start")[1] = Send("dec", "start") /\ Plan("start")[2] = Send("ren", "start")
      /\ Plan("start")[3] = Own("started")
  BY DEF Plan, StartComps
<1>2. /\ Plan("stop")[1] = Send("ren", "stop") /\ Plan("stop")[2] = Send("dec", "stop")
      /\ Plan("stop")[3] = Own("stopped")
  BY DEF Plan, StopComps
<1>3. /\ Plan("pause")[1] = Send("ren", "pause") /\ Plan("pause")[2] = Send("dec", "pause")
      /\ Plan("pause")[3] = Own("paused")
  BY DEF Plan, PauseComps
<1>4. /\ Plan("seek")[1] = Send("ren", "pause") /\ Plan("seek")[2] = Send("dec", "pause")
      /\ Plan("seek")[3] = Send("dec", "reset") /\ Plan("seek")[4] = Send("ren", "reset")
      /\ Plan("seek")[5] = Own("rewound")
      /\ Plan("seek")[6] = Send("ren", "start") /\ Plan("seek")[7] = Send("dec", "start")
  BY DEF Plan, PauseComps, ResetComps, RestartComps
<1>5. /\ Plan("rewind")[1] = Send("dec", "reset") /\ Plan("rewind")[2] = Send("ren", "reset")
      /\ Plan("rewind")[3] = Own("rewound")
  BY DEF Plan, ResetComps
<1>6. /\ Plan("clear")[1] = Send("ren", "quit") /\ Plan("clear")[2] = Send("dec", "quit")
      /\ Plan("clear")[3] = Own("cleared")
  BY DEF Plan
<1> QED BY <1>1, <1>2, <1>3, <1>4, <1>5, <1>6

\* Where in the lists each command is.
LEMMA Turns ==
    ASSUME NEW s \in PlanName, NEW k \in 1 .. Len(Plan(s))
    PROVE  /\ Plan(s)[k] = Send("dec", "start") => (s = "start" /\ k = 1) \/ (s = "seek" /\ k = 7)
           /\ Plan(s)[k] = Send("ren", "start") => (s = "start" /\ k = 2) \/ (s = "seek" /\ k = 6)
           /\ Plan(s)[k] = Send("dec", "stop") => s = "stop" /\ k = 2
           /\ Plan(s)[k] = Send("ren", "stop") => s = "stop" /\ k = 1
           /\ Plan(s)[k] = Send("dec", "pause") => s \in {"pause", "seek"} /\ k = 2
           /\ Plan(s)[k] = Send("ren", "pause") => s \in {"pause", "seek"} /\ k = 1
           /\ Plan(s)[k] = Send("dec", "reset") => (s = "seek" /\ k = 3) \/ (s = "rewind" /\ k = 1)
           /\ Plan(s)[k] = Send("ren", "reset") => (s = "seek" /\ k = 4) \/ (s = "rewind" /\ k = 2)
           /\ Plan(s)[k] = Send("dec", "quit") => s = "clear" /\ k = 2
           /\ Plan(s)[k] = Send("ren", "quit") => s = "clear" /\ k = 1
           /\ \A what : Plan(s)[k] = Own(what) =>
                  \/ s = "start" /\ k = 3 /\ what = "started"
                  \/ s = "stop" /\ k = 3 /\ what = "stopped"
                  \/ s = "pause" /\ k = 3 /\ what = "paused"
                  \/ s = "seek" /\ k = 5 /\ what = "rewound"
                  \/ s = "rewind" /\ k = 3 /\ what = "rewound"
                  \/ s = "clear" /\ k = 3 /\ what = "cleared"
<1>1. /\ \A c, m : Send(c, m).to = c /\ Send(c, m).what = m
      /\ \A what : Own(what).to = "player" /\ Own(what).what = what
  BY DEF Send, Own
<1>2. CASE s = "seek"
  <2>1. k \in {1, 2, 3, 4, 5, 6, 7}
    <3>1. Len(Plan(s)) = 7
      BY <1>2, PlanType
    <3> QED BY <3>1
  <2>2. CASE k \in {1, 2, 3}
    BY <1>1, <1>2, <2>2, PlanSteps
  <2>3. CASE k \in {4, 5, 6, 7}
    BY <1>1, <1>2, <2>3, PlanSteps
  <2> QED BY <2>1, <2>2, <2>3
<1>3. CASE s # "seek"
  <2>1. k \in {1, 2, 3}
    <3>1. Len(Plan(s)) = 3
      BY <1>3, PlanType
    <3> QED BY <3>1
  <2>2. CASE s \in {"start", "stop"}
    BY <1>1, <2>1, <2>2, PlanSteps
  <2>3. CASE s \in {"pause", "rewind", "clear"}
    BY <1>1, <2>1, <2>3, PlanSteps
  <2> QED BY <1>3, <2>2, <2>3 DEF PlanName
<1> QED BY <1>2, <1>3

\* The next step of the list, if there is one.
LEMMA NextStep ==
    ASSUME NEW s, NEW k, Doing(s, k)
    PROVE  /\ s \in PlanName /\ k \in Nat \ {0} /\ Len(Plan(s)) = IF s = "seek" THEN 7 ELSE 3
           /\ Idle <=> k = Len(Plan(s)) + 1
           /\ ~Idle => /\ k \in 1 .. Len(Plan(s)) /\ Head(player.todo) = Plan(s)[k]
                       /\ Tail(player.todo) = SubSeq(Plan(s), k + 1, Len(Plan(s)))
<1> DEFINE p == Plan(s)
<1>1. /\ s \in PlanName /\ k \in 1 .. Len(p) + 1 /\ player.todo = SubSeq(p, k, Len(p))
      /\ p \in Seq(Step) /\ Len(p) = IF s = "seek" THEN 7 ELSE 3
  BY PlanType DEF Doing
<1> HIDE DEF p
<1>2. CASE k = Len(p) + 1
  <2>1. player.todo = <<>>
    BY <1>1, <1>2, SubSeqEmpty
  <2> QED BY <1>1, <1>2, <2>1 DEF Idle, p
<1>3. CASE k \in 1 .. Len(p)
  <2>1. Len(p) \in k .. Len(p)
    BY <1>1, <1>3
  <2>2. Head(player.todo) = p[k] /\ Tail(player.todo) = SubSeq(p, k + 1, Len(p))
    BY <1>1, <1>3, <2>1, HeadTailOfSubSeq
  <2>3. Len(player.todo) = Len(p) - k + 1
    <3> DEFINE n == Len(p)
    <3>1. k \in Int /\ n \in Int /\ k <= n
      BY <1>1, <1>3
    <3>2. \A i \in k .. n : p[i] \in Step
      BY <1>1, <1>3
    <3> HIDE DEF n
    <3>3. Len(SubSeq(p, k, n)) = n - k + 1
      BY <3>1, <3>2, SubSeqProperties
    <3> QED BY <1>1, <3>3 DEF n
  <2>4. player.todo # <<>> /\ k # Len(p) + 1 /\ k \in Nat \ {0}
    <3>1. Len(p) \in Nat /\ k \in Int /\ k >= 1 /\ k <= Len(p)
      BY <1>1, <1>3
    <3>2. Len(player.todo) # 0
      BY <2>3, <3>1
    <3> QED BY <3>1, <3>2
  <2> QED BY <1>1, <1>3, <2>2, <2>4 DEF Idle, p
<1> QED BY <1>1, <1>2, <1>3

\* What the command in progress has done so far; a call before it is over.
LEMMA AtRestHandled ==
    ASSUME PlayInv, Idle
    PROVE  ~waiting /\ ~Handled
BY DEF PlayInv, PlayerType, Idle, Handled

LEMMA FirstDoing == PlayerInit => Doing("stop", 4)
<1> SUFFICES ASSUME PlayerInit PROVE Doing("stop", 4)
  OBVIOUS
<1>1. Plan("stop") \in Seq(Step) /\ Len(Plan("stop")) = 3
  BY PlanType DEF PlanName
<1>2. SubSeq(Plan("stop"), 4, 3) = <<>>
  BY SubSeqEmpty
<1>3. player.todo = SubSeq(Plan("stop"), 4, Len(Plan("stop"))) /\ player.status = "stopped"
  BY <1>1, <1>2 DEF PlayerInit
<1>4. player.status \in StatusIn("stop", 4)
  BY <1>3 DEF StatusIn
<1>5. "stop" \in PlanName /\ 4 \in 1 .. Len(Plan("stop")) + 1
  <2> DEFINE n == Len(Plan("stop"))
  <2>1. n = 3
    BY <1>1
  <2> HIDE DEF n
  <2>2. 4 \in 1 .. n + 1
    BY <2>1
  <2> QED BY <2>2 DEF PlanName, n
<1> QED BY <1>3, <1>4, <1>5, Zenon DEF Doing

-----------------------------------------------------------------------------
(* The steps of the player.                                                *)

\* The plan that each call begins.
LEMMA Calls ==
    /\ CallStart => Call("start", Plan("start")) /\ player.status \in StatusIn("start", 1)
    /\ CallStop => Call("stop", Plan("stop")) /\ player.status \in StatusIn("stop", 1)
    /\ CallPause => Call("pause", Plan("pause")) /\ player.status \in StatusIn("pause", 1)
    /\ CallReset => \/ Call("reset", Plan("seek")) /\ player.status \in StatusIn("seek", 1)
                    \/ Call("reset", Plan("rewind")) /\ player.status \in StatusIn("rewind", 1)
    /\ CallClear => Call("clear", Plan("clear")) /\ player.status \in StatusIn("clear", 1)
BY DEF CallStart, CallStop, CallPause, CallReset, CallClear, Plan, StatusIn

\* A call: nothing is under way, and its list begins.
LEMMA CallStep ==
    ASSUME PlayInv, NEW cmd, NEW s \in PlanName, Call(cmd, Plan(s)), player.status \in StatusIn(s, 1)
    PROVE  /\ PlayInv' /\ Doing(s, 1)' /\ Idle /\ ~Handled /\ ~Handled'
           /\ player'.status = player.status
           /\ player'.straight = (player.straight /\ cmd \in {"start", "stop"})
           /\ UNCHANGED <<waiting, threads, status>>
<1>1. Idle /\ UNCHANGED <<waiting, threads, status>>
  BY DEF Call, Idle
<1>2. ~waiting /\ ~Handled /\ ~waiting'
  BY <1>1, AtRestHandled
<1>3. /\ player' = [player EXCEPT !.todo = Plan(s),
                                  !.straight = @ /\ cmd \in {"start", "stop"}]
      /\ Plan(s) \in Seq(Step) /\ Plan(s) = SubSeq(Plan(s), 1, Len(Plan(s))) /\ Len(Plan(s)) \in Nat
  BY PlanType, SubSeqFull DEF Call
<1>4. /\ player'.todo = Plan(s) /\ player'.status = player.status
      /\ player'.straight = (player.straight /\ cmd \in {"start", "stop"})
  BY <1>3 DEF PlayInv, PlayerType
<1>5. PlayerType'
  BY <1>1, <1>2, <1>3 DEF PlayerType, PlayInv
<1>6. Doing(s, 1)'
  BY <1>3, <1>4 DEF Doing
<1>7. ASSUME NEW c \in Comp PROVE ExchangeWith(c)'
  <2>1. AwaitedOf(c)' = AwaitedOf(c)
    BY <1>2 DEF AwaitedOf
  <2> QED BY <1>1, <2>1, Untouched DEF threads, PlayInv
<1>8. LoopType'
  BY <1>1 DEF LoopType, PlayInv, threads
<1>9. ~Handled'
  BY <1>2 DEF Handled
<1> QED BY <1>1, <1>2, <1>4, <1>5, <1>6, <1>7, <1>8, <1>9 DEF PlayInv

\* A message is posted.
LEMMA PostStep ==
    ASSUME PlayInv, PlayerPosts
    PROVE  /\ PlayInv' /\ ~Handled /\ ~Handled' /\ UNCHANGED <<player, pc, owed, replies, status>>
           /\ \A s, k : Doing(s, k) => Doing(s, k)'
           /\ \E c \in Comp : mq' = [mq EXCEPT ![c] = Append(@, Head(player.todo).what)]
                                  /\ Head(player.todo) = Send(c, Head(player.todo).what)
<1>1. player.todo # <<>> /\ ~waiting /\ waiting' /\ UNCHANGED <<player, pc, owed, replies, status>>
  BY DEF PlayerPosts
<1>2. PICK c \in Comp, m \in Command :
          /\ c = Head(player.todo).to /\ m = Head(player.todo).what
          /\ mq' = [mq EXCEPT ![c] = Append(@, m)]
  BY <1>1, HeadStep DEF PlayerPosts, PostMessage, PlayInv
<1>3. Head(player.todo) = Send(c, m)
  <2>1. Head(player.todo) \in Step
    BY <1>1, HeadStep DEF PlayInv
  <2> QED BY <1>2, <2>1 DEF Send, Step, Comp
<1>4. PlayerType'
  BY <1>1, <1>2 DEF PlayerType, PlayInv
<1>5. /\ mq[c] \in Seq(Message) /\ Append(mq[c], m) \in Seq(Message) /\ mq'[c] = Append(mq[c], m)
      /\ \A d \in Comp \ {c} : mq'[d] = mq[d]
  <2>1. mq \in [Comp -> Seq(Message)] /\ mq[c] \in Seq(Message) /\ m \in Message
    BY DEF LoopType, Message, PlayInv
  <2>2. Append(mq[c], m) \in Seq(Message)
    BY <2>1
  <2> QED BY <1>2, <2>1, <2>2
<1>6. LoopType'
  <2>1. mq' \in [Comp -> Seq(Message)]
    BY <1>2, <1>5 DEF LoopType, PlayInv
  <2> QED BY <1>1, <2>1 DEF LoopType, PlayInv
<1>7. \A d \in Comp : AwaitedOf(d) = "none" /\ AwaitedOf(d)' = (IF d = c THEN m ELSE "none")
  BY <1>1, <1>2 DEF AwaitedOf
<1>8. \A d \in Comp : Posting(d)' = Posting(d) /\ Posting(d) \in Nat
  BY <1>1, PostingType DEF Posting, PlayInv
<1>9. ExchangeWith(c)' /\ OneCommand(mq'[c], m)
  <2> DEFINE q == mq[c]  n == Posting(c)
  <2>1. /\ Exchange("none", q, n, pc[c], owed[c], replies[c])
        /\ q \in Seq(Message) /\ n \in Nat
    BY <1>5, <1>7, <1>8 DEF PlayInv, ExchangeWith
  <2> HIDE DEF q, n
  <2>2. Exchange(m, Append(q, m), n, pc[c], owed[c], replies[c]) /\ OneCommand(Append(q, m), m)
    BY <2>1, Sent
  <2> QED BY <1>1, <1>5, <1>7, <1>8, <2>2 DEF q, n, ExchangeWith
<1>10. ASSUME NEW d \in Comp \ {c} PROVE ExchangeWith(d)'
  BY <1>1, <1>5, <1>7, <1>8 DEF PlayInv, ExchangeWith
<1>11. ~NoCommand(mq'[c])
  BY <1>5, <1>9, OneIsNotNone
<1>12. ~Handled /\ ~Handled'
  BY <1>1, <1>2, <1>11 DEF Handled
<1>13. \A s, k : Doing(s, k) => Doing(s, k)'
  BY <1>1 DEF Doing
<1> QED BY <1>1, <1>2, <1>3, <1>4, <1>6, <1>9, <1>10, <1>12, <1>13 DEF PlayInv

\* A reply is taken; the handler of the command has done its work.
LEMMA ResumeStep ==
    ASSUME PlayInv, PlayerResumes
    PROVE  /\ PlayInv' /\ Handled /\ ~Handled' /\ ~waiting' /\ UNCHANGED <<mq, pc, owed, status>>
           /\ player'.status = player.status /\ player'.straight = player.straight
           /\ \A s, k : Doing(s, k) => /\ Doing(s, k + 1)' /\ k \in 1 .. Len(Plan(s))
                                       /\ Plan(s)[k] = Head(player.todo)
           /\ Head(player.todo) = Send(Head(player.todo).to, Head(player.todo).what)
<1>1. PICK c \in Comp, m \in Command : c = Head(player.todo).to /\ m = Head(player.todo).what
  BY HeadStep DEF PlayerResumes, PlayerType, PlayInv
<1>2. /\ waiting /\ waiting' = FALSE /\ player.todo # <<>>
      /\ UNCHANGED <<mq, pc, owed, status>>
      /\ replies[c][m] > 0 /\ replies' = [replies EXCEPT ![c][m] = @ - 1]
      /\ player' = [player EXCEPT !.todo = Tail(@)]
  BY <1>1 DEF PlayerResumes, PlayerType, PlayInv
<1>3. /\ player'.todo = Tail(player.todo) /\ player'.status = player.status
      /\ player'.straight = player.straight /\ Tail(player.todo) \in Seq(Step)
      /\ Head(player.todo) \in Step
  BY <1>2, HeadStep DEF PlayerType, PlayInv
<1>4. PlayerType'
  BY <1>2, <1>3 DEF PlayerType, PlayInv
<1>5. \A d \in Comp : AwaitedOf(d) = (IF d = c THEN m ELSE "none") /\ AwaitedOf(d)' = "none"
                         /\ Posting(d)' = Posting(d)
  BY <1>1, <1>2 DEF AwaitedOf, Posting
<1>6. Head(player.todo) = Send(c, m)
  BY <1>1, <1>3 DEF Send, Step, Comp
<1>7. replies[c] \in [Command -> Nat] /\ replies'[c] = [replies[c] EXCEPT ![m] = @ - 1]
      /\ \A d \in Comp \ {c} : replies'[d] = replies[d]
  BY <1>2 DEF LoopType, PlayInv
<1>8. replies' \in [Comp -> [Command -> Nat]]
  <2>1. replies'[c] \in [Command -> Nat]
    BY <1>2, <1>7
  <2>2. replies' = [replies EXCEPT ![c] = replies'[c]]
    BY <1>2 DEF LoopType, PlayInv
  <2> QED BY <2>1, <2>2 DEF LoopType, PlayInv
<1>9. LoopType'
  BY <1>2, <1>8 DEF LoopType, PlayInv
<1>10. ExchangeWith(c)' /\ NoCommand(mq[c]) /\ pc[c] # "init"
  <2>1. Exchange(m, mq[c], Posting(c), pc[c], owed[c], replies[c])
    BY <1>5 DEF PlayInv, ExchangeWith
  <2>2. Exchange("none", mq[c], Posting(c), pc[c], owed[c], [replies[c] EXCEPT ![m] = @ - 1])
        /\ NoCommand(mq[c])
    BY <1>2, <1>7, <2>1, Returned
  <2>3. pc[c] # "init"
    BY <2>2 DEF Exchange
  <2> QED BY <1>2, <1>5, <1>7, <2>2, <2>3 DEF ExchangeWith
<1>11. ASSUME NEW d \in Comp \ {c} PROVE ExchangeWith(d)'
  BY <1>2, <1>5, <1>7 DEF PlayInv, ExchangeWith
<1>12. Handled /\ ~Handled'
  BY <1>1, <1>2, <1>10 DEF Handled
<1>13. ASSUME NEW s, NEW k, Doing(s, k)
       PROVE  Doing(s, k + 1)' /\ k \in 1 .. Len(Plan(s)) /\ Plan(s)[k] = Head(player.todo)
  <2>1. /\ s \in PlanName /\ k \in 1 .. Len(Plan(s)) /\ Head(player.todo) = Plan(s)[k]
        /\ Tail(player.todo) = SubSeq(Plan(s), k + 1, Len(Plan(s)))
        /\ Len(Plan(s)) = IF s = "seek" THEN 7 ELSE 3
    BY <1>2, <1>13, NextStep DEF Idle
  <2>2. ~(s # "seek" /\ k = 3)
    <3>1. Plan(s)[k] # Own("started") /\ Plan(s)[k] # Own("stopped") /\ Plan(s)[k] # Own("paused")
          /\ Plan(s)[k] # Own("rewound") /\ Plan(s)[k] # Own("cleared")
      BY <1>6, <2>1 DEF Send, Own, Comp
    <3> QED BY <2>1, <3>1, PlanSteps DEF PlanName
  <2>3. player.status \in StatusIn(s, k + 1)
    BY <1>13, <2>1, <2>2 DEF Doing, StatusIn, PlanName
  <2> QED BY <1>3, <2>1, <2>3 DEF Doing
<1> QED BY <1>1, <1>2, <1>3, <1>4, <1>6, <1>9, <1>10, <1>11, <1>12, <1>13 DEF PlayInv

\* A step of the player's own.
LEMMA DoesStep ==
    ASSUME PlayInv, NEW what \in OwnSteps, PlayerDoes(what)
    PROVE  /\ PlayInv' /\ ~Handled /\ ~Handled' /\ UNCHANGED <<waiting, threads, status>>
           /\ player'.status = (IF what = "rewound" THEN player.status ELSE what)
           /\ player'.straight = (player.straight /\ what = "started")
           /\ \A s, k : Doing(s, k) => /\ Doing(s, k + 1)' /\ k \in 1 .. Len(Plan(s))
                                       /\ Plan(s)[k] = Own(what)
<1>1. player.todo # <<>> /\ Head(player.todo) = Own(what) /\ UNCHANGED <<waiting, threads, status>>
  BY DEF PlayerDoes
<1>2. ~waiting /\ ~waiting'
  BY <1>1, HeadStep DEF Own, Comp, PlayInv
<1>3. /\ player.todo \in Seq(Step) /\ Tail(player.todo) \in Seq(Step)
      /\ player'.todo = Tail(player.todo)
      /\ player'.status = IF what = "rewound" THEN player.status ELSE what
      /\ player'.straight = (player.straight /\ what = "started")
  BY <1>1, HeadStep DEF PlayerDoes, PlayerType, PlayInv
<1>4. PlayerType'
  <2>1. what = "rewound" \/ what \in Status \cup {"cleared"}
    BY DEF OwnSteps
  <2>2. player'.status \in Status \cup {"cleared"}
    BY <1>3, <2>1 DEF PlayerType, PlayInv
  <2>3. player' = [player EXCEPT !.todo = player'.todo, !.straight = player'.straight,
                                 !.status = player'.status]
    BY DEF PlayerDoes, PlayerType, PlayInv
  <2>4. player'.straight \in BOOLEAN
    BY <1>3
  <2> QED BY <1>1, <1>2, <1>3, <2>2, <2>3, <2>4 DEF PlayerType, PlayInv
<1>5. LoopType'
  BY <1>1 DEF LoopType, PlayInv, threads
<1>6. ASSUME NEW c \in Comp PROVE ExchangeWith(c)'
  <2>1. AwaitedOf(c)' = AwaitedOf(c)
    BY <1>2 DEF AwaitedOf
  <2> QED BY <1>1, <2>1, Untouched DEF PlayInv, threads
<1>7. ~Handled /\ ~Handled'
  BY <1>2 DEF Handled
<1>8. ASSUME NEW s, NEW k, Doing(s, k)
      PROVE  Doing(s, k + 1)' /\ k \in 1 .. Len(Plan(s)) /\ Plan(s)[k] = Own(what)
  <2>1. /\ s \in PlanName /\ k \in 1 .. Len(Plan(s)) /\ Plan(s)[k] = Own(what)
        /\ Tail(player.todo) = SubSeq(Plan(s), k + 1, Len(Plan(s)))
        /\ Len(Plan(s)) = IF s = "seek" THEN 7 ELSE 3
    BY <1>1, <1>8, NextStep DEF Idle
  <2>2. player'.status \in StatusIn(s, k + 1)
    <3>1. \/ s = "start" /\ k = 3 /\ what = "started"
          \/ s = "stop" /\ k = 3 /\ what = "stopped"
          \/ s = "pause" /\ k = 3 /\ what = "paused"
          \/ s = "seek" /\ k = 5 /\ what = "rewound"
          \/ s = "rewind" /\ k = 3 /\ what = "rewound"
          \/ s = "clear" /\ k = 3 /\ what = "cleared"
      BY <2>1, Turns
    <3> QED BY <1>3, <1>8, <3>1 DEF Doing, StatusIn
  <2> QED BY <1>3, <2>1, <2>2 DEF Doing
<1> QED BY <1>1, <1>3, <1>4, <1>5, <1>6, <1>7, <1>8 DEF PlayInv

\* A step of a thread is no step of the list.
LEMMA SameDoing ==
    ASSUME UNCHANGED playerVars
    PROVE  \A s, k : Doing(s, k) => Doing(s, k)'
BY DEF playerVars, Doing

\* A command that is taken is the one of the list, and not yet carried out.
LEMMA TakenTurn ==
    ASSUME PlayInv, NEW c \in Comp, NEW m \in Command, Handle(c, m), NEW s, NEW k, Doing(s, k)
    PROVE  s \in PlanName /\ k \in 1 .. Len(Plan(s)) /\ Plan(s)[k] = Send(c, m) /\ Turn(k) = k
<1>1. player.todo # <<>> /\ Head(player.todo) = Send(c, m) /\ ~NoCommand(mq[c])
  BY Awaits
<1>2. ~Handled
  BY <1>1 DEF Handled, Send
<1> QED BY <1>1, <1>2, NextStep DEF Idle, Turn

LEMMA CommandTurn ==
    ASSUME PlayInv, NEW c \in Comp, NEW m \in Command, NEW at, UNCHANGED playerVars,
           Replied(c, m, at) \/ Owes(c, m), NEW s, NEW k, Doing(s, k)
    PROVE  PlayInv' /\ Doing(s, k)' /\ Turn(k)' = k + 1
BY CommandStep, SameDoing DEF Turn

LEMMA OtherTurn ==
    ASSUME PlayInv, NEW c \in Comp, UNCHANGED playerVars, OtherStep(c), NEW s, NEW k, Doing(s, k)
    PROVE  PlayInv' /\ Doing(s, k)' /\ Turn(k)' = Turn(k)
BY OtherStepGoesOn, SameDoing DEF Turn

\* eStatus of the two components when e is the step that is still to be carried
\* out, in a player that is in state st.
RenAt(s, e, st) ==
    CASE s = "start" -> IF e > 2 THEN "started" ELSE st
      [] s = "stop" -> IF e > 1 THEN "stopped" ELSE st
      [] s = "pause" -> IF e > 1 THEN "paused" ELSE "started"
      [] s = "seek" -> IF e \in 2 .. 6 THEN "paused" ELSE "started"
      [] s = "rewind" -> "paused"
      [] s = "clear" -> "stopped"

DecAt(s, e, st) ==
    CASE s = "start" -> IF e > 1 THEN "started" ELSE st
      [] s = "stop" -> IF e > 2 THEN "stopped" ELSE st
      [] s = "pause" -> IF e > 2 THEN "paused" ELSE "started"
      [] s = "seek" -> IF e \in 3 .. 7 THEN "paused" ELSE "started"
      [] s = "rewind" -> "paused"
      [] s = "clear" -> "stopped"

\* At the end of its list the player is where its components are.
LEMMA AtTheEnd ==
    ASSUME NEW s, NEW k, Doing(s, k), Idle, ~Handled
    PROVE  /\ k = (IF s = "seek" THEN 8 ELSE 4) /\ Turn(k) = k
           /\ RenAt(s, k, player.status) =
                  IF player.status = "cleared" THEN "stopped" ELSE player.status
           /\ DecAt(s, k, player.status) = RenAt(s, k, player.status)
<1>1. /\ s \in PlanName /\ k = (IF s = "seek" THEN 8 ELSE 4)
  <2>1. s \in PlanName /\ Len(Plan(s)) = (IF s = "seek" THEN 7 ELSE 3) /\ k = Len(Plan(s)) + 1
    BY NextStep
  <2> QED BY <2>1
<1>2. player.status \in StatusIn(s, k)
  BY DEF Doing
<1> QED BY <1>1, <1>2 DEF Turn, StatusIn, RenAt, DecAt, PlanName

=============================================================================
