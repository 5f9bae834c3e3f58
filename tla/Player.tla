------------------------------- MODULE Player -------------------------------
(***************************************************************************)
(* The player's commands and the message loop of its components            *)
(* (wfd_player/playback/player.c, baseComponent.c).                        *)
(*                                                                         *)
(* A stream has two components, a decoder and a renderer, each a thread    *)
(* with a message queue.  The player posts a command and waits for its     *)
(* reply; a component keeps itself going with CONTINUE messages, which it  *)
(* posts to its own queue when it finds it empty.  If it does not, it      *)
(* counts on the message it found to keep it going, and nothing else will. *)
(*                                                                         *)
(* VideoPlayback and AudioPlayback extend this module with the handlers of *)
(* the two components.  Commands are issued one at a time, and those to    *)
(* the components of the other stream, in between, keep no state here.     *)
(***************************************************************************)
EXTENDS Naturals, Sequences

CONSTANTS
    Capacity,   \* of a component's message queue (4 in the build)
    Commands    \* the calls the application makes

ASSUME CapacityAssumption == Capacity \in Nat /\ Capacity >= 3

VARIABLES
    player,     \* eStatus and what the command in progress has left to do
    waiting,    \* the player waits for the reply to the head of its list
    mq,         \* the message queue of each component
    pc, owed,   \* where each thread is, the reply that its handler still owes
    replies,    \* replySem of each component and command
    status      \* eStatus of each component

threads == <<mq, pc, owed, replies>>
playerVars == <<player, waiting>>

Comp == {"dec", "ren"}
Command == {"start", "stop", "pause", "reset", "quit"}
Status == {"stopped", "started", "paused"}

\* The history variable player.straight is TRUE while the player has only been
\* started, perhaps is being stopped.
PlayerInit ==
    /\ player = [status |-> "stopped", straight |-> TRUE, todo |-> <<>>]
    /\ waiting = FALSE
    /\ mq = [c \in Comp |-> <<>>]
    /\ pc = [c \in Comp |-> "get"]
    /\ owed = [c \in Comp |-> "none"]
    /\ replies = [c \in Comp |-> [m \in Command |-> 0]]
    /\ status = [c \in Comp |-> "stopped"]

-----------------------------------------------------------------------------
(* Message queues and replies.  Posting to a full queue aborts the         *)
(* program.                                                                *)

PostMessage(c, m) ==
    /\ Len(mq[c]) < Capacity
    /\ mq' = [mq EXCEPT ![c] = Append(@, m)]

\* A handler takes its message; it holds no lock while it runs.
Handle(c, m) ==
    /\ pc[c] = "get" /\ mq[c] # <<>>
    /\ Head(mq[c]) = m
    /\ mq' = [mq EXCEPT ![c] = Tail(@)]

GoTo(c, phase) == pc' = [pc EXCEPT ![c] = phase]
Reply(c, m) == replies' = [replies EXCEPT ![c][m] = @ + 1]

JustReply(c, m) == Reply(c, m) /\ GoTo(c, "get") /\ UNCHANGED owed
ReplyThenContinue(c, m) == Reply(c, m) /\ GoTo(c, "check") /\ UNCHANGED owed
ContinueThenReply(c, m) ==
    GoTo(c, "check") /\ owed' = [owed EXCEPT ![c] = m] /\ UNCHANGED replies

HandlerEnds(c) ==
    /\ GoTo(c, "get")
    /\ owed' = [owed EXCEPT ![c] = "none"]
    /\ IF owed[c] = "none" THEN UNCHANGED replies ELSE Reply(c, owed[c])

\* Mutant: the count of messages is not looked at.
LooksNot(c) ==
    /\ pc[c] = "check"
    /\ GoTo(c, "post") /\ UNCHANGED <<owed, replies>>
    /\ UNCHANGED <<mq, playerVars, status>>

\* BaseCompContinue: looking at the queue and posting are two steps.
Looks(c) ==
    /\ pc[c] = "check"
    /\ IF mq[c] = <<>> THEN GoTo(c, "post") /\ UNCHANGED <<owed, replies>>
                       ELSE HandlerEnds(c)
    /\ UNCHANGED <<mq, playerVars, status>>

Posts(c) ==
    /\ pc[c] = "post"
    /\ PostMessage(c, "continue")
    /\ HandlerEnds(c)
    /\ UNCHANGED <<playerVars, status>>

Continues(c) == Looks(c) \/ Posts(c)

SetStatus(c, s) == status' = [status EXCEPT ![c] = s]

-----------------------------------------------------------------------------
(* A command is a list of steps: a message to a component, whose reply is  *)
(* awaited, or something that the player does itself.                      *)

Send(c, m) == [to |-> c, what |-> m]
Own(what) == [to |-> "player", what |-> what]

StartComps == <<Send("dec", "start"), Send("ren", "start")>>
\* Mutant: the decoder is stopped first.
StopDecoderFirst == <<Send("dec", "stop"), Send("ren", "stop")>>
StopComps == <<Send("ren", "stop"), Send("dec", "stop")>>
PauseComps == <<Send("ren", "pause"), Send("dec", "pause")>>
ResetComps == <<Send("dec", "reset"), Send("ren", "reset"), Own("rewound")>>
\* Mutant: the decoder is left paused.
RestartRenderOnly == <<Send("ren", "start")>>
RestartComps == <<Send("ren", "start"), Send("dec", "start")>>

Call(cmd, todo) ==
    /\ cmd \in Commands
    /\ player.todo = <<>>
    /\ player' = [player EXCEPT !.todo = todo,
                                !.straight = @ /\ cmd \in {"start", "stop"}]
    /\ UNCHANGED <<waiting, threads, status>>

\* WFD_PlayerStart.
CallStart ==
    /\ player.status \in {"stopped", "paused"}
    /\ Call("start", StartComps \o <<Own("started")>>)

\* Mutant: a stopped player is stopped again.
CallStopUnchecked ==
    /\ player.status # "cleared"
    /\ Call("stop", StopComps \o <<Own("stopped")>>)

\* WFD_PlayerStop.
CallStop ==
    /\ player.status \in {"started", "paused"}
    /\ Call("stop", StopComps \o <<Own("stopped")>>)

\* WFD_PlayerPause.
CallPause ==
    /\ player.status = "started"
    /\ Call("pause", PauseComps \o <<Own("paused")>>)

\* WFD_PlayerReset.  A player that runs is paused meanwhile.
CallReset ==
    \/ player.status = "started" /\ Call("reset", PauseComps \o ResetComps \o RestartComps)
    \/ player.status = "paused" /\ Call("reset", ResetComps)

\* WFD_PlayerClear destroys the components.
CallClear ==
    /\ player.status = "stopped"
    /\ Call("clear", <<Send("ren", "quit"), Send("dec", "quit"), Own("cleared")>>)

\* BaseCompPostAndWait.
PlayerPosts ==
    /\ player.todo # <<>> /\ ~waiting
    /\ LET step == Head(player.todo) IN
           step.to \in Comp /\ PostMessage(step.to, step.what)
    /\ waiting' = TRUE
    /\ UNCHANGED <<player, pc, owed, replies, status>>

PlayerResumes ==
    /\ waiting
    /\ LET step == Head(player.todo) IN
           /\ replies[step.to][step.what] > 0
           /\ replies' = [replies EXCEPT ![step.to][step.what] = @ - 1]
    /\ waiting' = FALSE
    /\ player' = [player EXCEPT !.todo = Tail(@)]
    /\ UNCHANGED <<mq, pc, owed, status>>

\* eStatus is set; a seek leaves it as it is.
PlayerDoes(what) ==
    /\ player.todo # <<>> /\ Head(player.todo) = Own(what)
    /\ player' = [player EXCEPT !.todo = Tail(@),
                                !.straight = @ /\ what = "started",
                                !.status = IF what = "rewound" THEN @ ELSE what]
    /\ UNCHANGED <<waiting, threads, status>>

OwnSteps == Status \cup {"rewound", "cleared"}

-----------------------------------------------------------------------------
(* Properties of the message loop, whatever the handlers are.              *)

LoopTypeOK ==
    /\ player \in [status : Status \cup {"cleared"}, straight : BOOLEAN,
                   todo : Seq([to : Comp, what : Command] \cup
                              [to : {"player"}, what : OwnSteps])]
    /\ waiting \in BOOLEAN
    /\ mq \in [Comp -> Seq(Command \cup {"continue"})]
    /\ owed \in [Comp -> Command \cup {"none"}]
    /\ replies \in [Comp -> [Command -> Nat]]
    /\ status \in [Comp -> Status]

Idle == player.todo = <<>>

\* Nobody ever posts to a full queue, which would abort the program: neither
\* the player, nor a thread that has looked before.
RoomToPost ==
    /\ \A c \in Comp : pc[c] = "post" => Len(mq[c]) < Capacity
    /\ (~Idle /\ ~waiting /\ Head(player.todo).to \in Comp) =>
            Len(mq[Head(player.todo).to]) < Capacity

\* A reply is posted to a caller that waits for it, once: a second one would
\* let a later command return before it has been carried out.
NoStrayReply ==
    \A c \in Comp, m \in Command :
        replies[c][m] > 0 =>
            replies[c][m] = 1 /\ waiting /\ Head(player.todo) = Send(c, m)

\* Every command returns.
CallsReturn == []<>Idle
=============================================================================
